---- MODULE Spec2Model ----
(***************************************************************************)
(* A model of the orca Wasm module IR (src/src/ir/module/mod.rs):          *)
(* the module manipulation API, the reorganisation of the function,        *)
(* global and memory spaces, the special-instrumentation resolver and the  *)
(* encoder.                                                                *)
(*                                                                         *)
(* Indices are 0-based in the source; TLA+ sequences are 1-based, so the   *)
(* entry with index i of a Vec is element i + 1 of the sequence.           *)
(***************************************************************************)
EXTENDS Integers, Sequences, FiniteSets, TLC

\* ---------------------------------------------------------------- bounds
MaxParseFuncs   == 2      \* functions of a parsed module, imported and local
MaxFuncs        == 3      \* entries of the function space
MaxEdits        == 2      \* edits applied to one module
MaxEncodes      == 2      \* calls of encode on one module
MaxItems        == 2      \* entries of the global / memory space
MaxCallers      == 1      \* parsed local functions whose body holds a call
MaxResolveImports == 1    \* function imports of a parsed module that is instrumented
MaxRecGroups    == 2      \* entries of the type section of a binary
MaxGroupTypes   == 2      \* types of one explicit rec group

\* Option::None for indices
None == -1

\* ---------------------------------------------------------------- Vec helpers
\* Vec::remove(i): the sequence without the entry of index i
RemoveAt(items, i) == SubSeq(items, 1, i) \o SubSeq(items, i + 2, Len(items))

\* Vec::insert(i, v)
InsertAt(items, i, v) == SubSeq(items, 1, i) \o <<v>> \o SubSeq(items, i + 1, Len(items))

\* the entry of index i
At(items, i) == items[i + 1]

RECURSIVE SeqSum(_)
SeqSum(s) == IF s = <<>> THEN 0 ELSE Head(s) + SeqSum(Tail(s))

RECURSIVE Flatten(_)
Flatten(ss) == IF ss = <<>> THEN <<>> ELSE Head(ss) \o Flatten(Tail(ss))

\* the indices (0-based, ascending) of the entries of s that satisfy Test
SelectIdx(s, Test(_)) ==
    SelectSeq([k \in 1..Len(s) |-> k - 1], LAMBDA i : Test(At(s, i)))

\* ---------------------------------------------------------------- instructions
\* Option<Vec<Operator>>: None, or Some(body)
NoBody == [some |-> FALSE, body |-> <<>>]
SomeBody(b) == [some |-> TRUE, body |-> b]

\* an operator: opcode and immediate (function / global / memory index,
\* relative depth, local index, or a tag that tells injected bodies apart)
Op(op, arg) == [op |-> op, arg |-> arg, targets |-> <<>>]
BrTable(targets, default) == [op |-> "br_table", arg |-> default, targets |-> targets]

\* InstrumentationFlag::default()
NoFlag ==
    [before |-> <<>>, after |-> <<>>, alternate |-> NoBody,
     block_entry |-> <<>>, block_exit |-> <<>>, block_alt |-> NoBody,
     semantic_after |-> <<>>]

\* Instruction::new(op)
Instruction(o) == [op |-> o, instr_flag |-> NoFlag]

\* InstrumentationFlag::has_instr
has_instr(f) ==
    \/ f.before # <<>>
    \/ f.after # <<>>
    \/ f.alternate.some
    \/ f.block_entry # <<>>
    \/ f.block_exit # <<>>
    \/ f.block_alt.some
    \/ f.semantic_after # <<>>

\* wrappers::refers_to_func / refers_to_global / refers_to_memory
refers_to_func(o)   == o.op \in {"call", "return_call", "ref.func"}
refers_to_global(o) == o.op \in {"global.get", "global.set"}
refers_to_memory(o) == o.op \in {"memory.size", "memory.grow", "i32.load", "i32.store"}


\* ---------------------------------------------------------------- type table
\* Types::FuncType, reduced to its params and results
FuncType(params, results) == [params |-> params, results |-> results]

\* ModuleTypes::add_func_type: reuse the type if the table holds it, else append;
\* gives the new table and the id of the type
add_func_type(tys, params, results) ==
    LET ty == FuncType(params, results)
        hits == {i \in 0..(Len(tys) - 1) : At(tys, i) = ty}
    IN  IF hits # {}
        THEN [types |-> tys, id |-> CHOOSE i \in hits : \A j \in hits : i <= j]
        ELSE [types |-> Append(tys, ty), id |-> Len(tys)]

\* ---------------------------------------------------------------- type section
\* the composite types parse_internal tells apart
TypeKinds == {"FuncType", "ArrayType", "StructType", "ContType"}

\* one entry of a type section: a rec group, explicit or not, and its types
RecGroup(explicit, tys) == [explicit |-> explicit, types |-> tys]

\* ModuleTypes: the type table and recgroup_map (type index -> entry index)
NoTypes == [types |-> <<>>, recgroup_map |-> <<>>]

RECURSIVE parse_subtypes(_, _, _, _)
\* the loop over ty.types() of the entry with index id
parse_subtypes(acc, tys, rec_group, id) ==
    IF tys = <<>> THEN acc
    ELSE LET ty_idx == Len(acc.types)
         IN  parse_subtypes(
                [types |-> Append(acc.types, Head(tys)),
                 recgroup_map |-> IF rec_group
                                  THEN [i \in DOMAIN acc.recgroup_map \cup {ty_idx} |->
                                            IF i = ty_idx THEN id ELSE acc.recgroup_map[i]]
                                  ELSE acc.recgroup_map],
                Tail(tys), rec_group, id)

RECURSIVE parse_type_section(_, _, _)
\* Payload::TypeSection of parse_internal: the loop over the entries
parse_type_section(acc, section, id) ==
    IF id >= Len(section) THEN acc
    ELSE parse_type_section(
            parse_subtypes(acc, At(section, id).types, At(section, id).explicit, id),
            section, id + 1)

\* encode_type: todo!() for a ContType
encode_type_ok(ty) == ty # "ContType"

\* recgroup_map.get(idx)
recgroup_get(map, idx) == IF idx \in DOMAIN map THEN map[idx] ELSE None

RECURSIVE encode_type_loop_merged(_, _, _)
\* the loop with a slip: a rec group is closed only when a type outside every
\* rec group follows
encode_type_loop_merged(tys, st, idx) ==
    IF idx >= Len(tys.types) \/ st.panic THEN st
    ELSE LET ty == At(tys.types, idx)
             curr_rg == recgroup_get(tys.recgroup_map, idx)
             flushed == IF curr_rg = None /\ st.last_rg # None
                        THEN [st EXCEPT !.section = Append(@, RecGroup(TRUE, st.rg_types)),
                                        !.rg_types = <<>>]
                        ELSE st
         IN  encode_type_loop_merged(tys,
                IF ~encode_type_ok(ty) THEN [flushed EXCEPT !.panic = TRUE]
                ELSE IF curr_rg # None
                     THEN [flushed EXCEPT !.rg_types = Append(@, ty), !.last_rg = curr_rg]
                     ELSE [flushed EXCEPT !.section = Append(@, RecGroup(FALSE, <<ty>>)),
                                          !.last_rg = curr_rg],
                idx + 1)

RECURSIVE encode_type_loop(_, _, _)
\* the loop of the type section of encode_internal: st holds the section so
\* far, last_rg, rg_types and panic
encode_type_loop(tys, st, idx) ==
    IF idx >= Len(tys.types) \/ st.panic THEN st
    ELSE LET ty == At(tys.types, idx)
             curr_rg == recgroup_get(tys.recgroup_map, idx)
             flushed == IF curr_rg # st.last_rg /\ st.last_rg # None
                        THEN [st EXCEPT !.section = Append(@, RecGroup(TRUE, st.rg_types)),
                                        !.rg_types = <<>>]
                        ELSE st
         IN  encode_type_loop(tys,
                IF ~encode_type_ok(ty) THEN [flushed EXCEPT !.panic = TRUE]
                ELSE IF curr_rg # None
                     THEN [flushed EXCEPT !.rg_types = Append(@, ty), !.last_rg = curr_rg]
                     ELSE [flushed EXCEPT !.section = Append(@, RecGroup(FALSE, <<ty>>)),
                                          !.last_rg = curr_rg],
                idx + 1)

\* the type section encode_internal emits (none for an empty table), or panic
encode_type_section(tys) ==
    LET st == encode_type_loop(tys, [section |-> <<>>, last_rg |-> None,
                                     rg_types |-> <<>>, panic |-> FALSE], 0)
    IN  IF st.panic THEN [section |-> <<>>, panic |-> TRUE]
        ELSE [section |-> IF st.last_rg # None
                          THEN Append(st.section, RecGroup(TRUE, st.rg_types))
                          ELSE st.section,
              panic |-> FALSE]

\* ---------------------------------------------------------------- FunctionModifier
\* before_at(idx) followed by inject_all(ops)
InjectBefore(body, idx, ops) ==
    [body EXCEPT ![idx + 1].instr_flag.before = @ \o ops]

\* after_at(idx) followed by inject_all(ops)
InjectAfter(body, idx, ops) ==
    [body EXCEPT ![idx + 1].instr_flag.after = @ \o ops]

\* alternate_at(idx) followed by inject_all(ops)
InjectAlternate(body, idx, ops) ==
    [body EXCEPT ![idx + 1].instr_flag.alternate = SomeBody(@.body \o ops)]

\* before_at / after_at chosen by an InstrumentationMode, then inject_all
InjectMode(body, mode, idx, ops) ==
    IF mode = "Before" THEN InjectBefore(body, idx, ops) ELSE InjectAfter(body, idx, ops)

\* empty_alternate_at(idx)
empty_alternate_at(body, idx) ==
    [body EXCEPT ![idx + 1].instr_flag.alternate = SomeBody(<<>>)]

\* clear_instr_at(idx, mode) for the special modes
clear_instr_at(body, idx, mode) ==
    CASE mode = "BlockAlt"      -> [body EXCEPT ![idx + 1].instr_flag.block_alt = NoBody]
      [] mode = "BlockEntry"    -> [body EXCEPT ![idx + 1].instr_flag.block_entry = <<>>]
      [] mode = "BlockExit"     -> [body EXCEPT ![idx + 1].instr_flag.block_exit = <<>>]
      [] mode = "SemanticAfter" -> [body EXCEPT ![idx + 1].instr_flag.semantic_after = <<>>]

\* ---------------------------------------------------------------- resolver helpers
IsOpener(o) == o.op \in {"block", "loop", "if"}
IsElse(o)   == o.op = "else"
IsEnd(o)    == o.op = "end"

ReturnFamily == {"return", "return_call", "return_call_indirect", "return_call_ref"}
TrapFamily   == {"unreachable", "throw", "rethrow", "throw_ref", "resume_throw"}
FallthroughBranches == {"br_if", "br_on_null", "br_on_non_null", "br_on_cast", "br_on_cast_fail"}
SingleTargetBranches == {"br"} \cup FallthroughBranches

\* InstrToInject { flagged: vec![], not_flagged: vec![] }
NoInstrToInject == [flagged |-> <<>>, not_flagged |-> <<>>]

\* HashMap<InstrumentationMode, InstrToInject>::new(); a mode without an entry
\* holds no bodies
NoModeMap == [Before |-> NoInstrToInject, After |-> NoInstrToInject]

Last(s) == s[Len(s)]

\* save_not_flagged_body_to_resolve_inner
save_not_flagged_body_to_resolve_inner(inner, mode, body) ==
    [inner EXCEPT ![mode].not_flagged = Append(@, body)]

\* save_not_flagged_body_to_resolve
save_not_flagged_body_to_resolve(resolve_on_end, mode, body, block_id) ==
    [resolve_on_end EXCEPT ![block_id] = save_not_flagged_body_to_resolve_inner(@, mode, body)]

\* save_flagged_body_to_resolve with a slip: the body is saved for the current
\* block whatever the relative depth
save_flagged_body_to_resolve_curr(to_resolve, mode, body, bool_flag_id, relative_depth, curr_block) ==
    LET block_id == curr_block
    IN  [to_resolve EXCEPT ![block_id][mode].flagged =
            Append(@, [body |-> body, bool_flag |-> bool_flag_id])]

\* save_flagged_body_to_resolve, for a block_id that did not underflow
save_flagged_body_to_resolve(to_resolve, mode, body, bool_flag_id, relative_depth, curr_block) ==
    LET block_id == curr_block - relative_depth
    IN  [to_resolve EXCEPT ![block_id][mode].flagged =
            Append(@, [body |-> body, bool_flag |-> bool_flag_id])]

RECURSIVE SaveFlaggedAll(_, _, _, _, _, _)
\* the targets().for_each of plan_resolution_semantic_after
SaveFlaggedAll(to_resolve, mode, body, bool_flag_id, depths, curr_block) ==
    IF depths = <<>> THEN to_resolve
    ELSE SaveFlaggedAll(
            save_flagged_body_to_resolve(to_resolve, mode, body, bool_flag_id,
                                         Head(depths), curr_block),
            mode, body, bool_flag_id, Tail(depths), curr_block)

RECURSIVE FlaggedLadder(_, _)
\* the operators resolve_bodies injects for the flagged bodies
FlaggedLadder(flagged, is_first) ==
    IF flagged = <<>> THEN <<>>
    ELSE LET f == Head(flagged)
         IN  (IF is_first
              THEN <<Op("local.get", f.bool_flag), Op("if", None)>> \o f.body
              ELSE <<Op("else", None), Op("local.get", f.bool_flag), Op("if", None)>>
                   \o f.body \o <<Op("end", None)>>)
             \o FlaggedLadder(Tail(flagged), FALSE)

\* resolve_bodies
resolve_bodies(body, mode, instr_to_inject, idx) ==
    LET ladder == FlaggedLadder(instr_to_inject.flagged, TRUE)
        closing == IF instr_to_inject.flagged # <<>> THEN <<Op("end", None)>> ELSE <<>>
    IN  InjectMode(body, mode, idx,
                   ladder \o closing \o Flatten(instr_to_inject.not_flagged))

\* for (mode, instr_to_inject) in map.iter() { resolve_bodies(..) }
ResolveModeMap(body, map, idx) ==
    resolve_bodies(resolve_bodies(body, "Before", map.Before, idx), "After", map.After, idx)

\* ---------------------------------------------------------------- resolver
(***************************************************************************)
(* The state of the walk of resolve_special_instrumentation over one       *)
(* function: body is the body the builder edits, copy the                  *)
(* readable_copy_of_body the loop reads its opcodes and flags from, idx    *)
(* the index of the next instruction.  panic records an unwrap of an empty *)
(* block stack or a block id below zero.                                   *)
(***************************************************************************)
ResolverInit(body, args, num_locals, on_entry, on_exit) ==
    [body |-> body, copy |-> body, idx |-> 0,
     block_stack |-> <<0>>, delete_block |-> None, retain_end |-> TRUE,
     resolve_on_else_or_end |-> NoModeMap,
     resolve_on_end |-> [b \in 0..Len(body) |-> NoModeMap],
     args |-> args, num_locals |-> num_locals,
     on_entry |-> on_entry, on_exit |-> on_exit, panic |-> FALSE]

\* the wrapper with its opener put in front of the entry body
resolve_function_exit_with_block_wrapper_in_front(on_entry, block_ty) ==
    <<Op("block", block_ty)>> \o on_entry

\* resolve_function_exit_with_block_wrapper
resolve_function_exit_with_block_wrapper(on_entry, block_ty) ==
    Append(on_entry, Op("block", block_ty))

\* resolve_function_entry, called when on_entry is not empty
resolve_function_entry(rs) ==
    IF rs.idx = 0
    THEN [rs EXCEPT !.body = InjectBefore(@, 0, rs.on_entry.body),
                    !.on_entry.body = <<>>]
    ELSE rs

\* resolve_function_exit, called when on_exit is not empty
resolve_function_exit(rs, op) ==
    IF op.op \in ReturnFamily \cup TrapFamily
    THEN [rs EXCEPT !.body = InjectBefore(@, rs.idx, rs.on_exit.body)]
    ELSE IF rs.idx = Len(rs.body) - 1
         THEN [rs EXCEPT !.body = InjectBefore(@, rs.idx, <<Op("end", None)>> \o rs.on_exit.body),
                         !.on_exit.body = <<>>]
         ELSE rs

\* the function-level part of one iteration of the walk
FunctionLevel(rs, op) ==
    LET r1 == IF rs.on_entry.some /\ rs.on_entry.body # <<>>
              THEN resolve_function_entry(rs) ELSE rs
    IN  IF r1.on_exit.some /\ r1.on_exit.body # <<>>
        THEN resolve_function_exit(r1, op) ELSE r1

\* plan_resolution_block_alt without the else case of retain_end
plan_resolution_block_alt_end_dropped(rs, op, block_alt) ==
    LET b1 == IF block_alt # <<>>
              THEN InjectAlternate(rs.body, rs.idx, block_alt)
              ELSE empty_alternate_at(rs.body, rs.idx)
    IN  IF rs.block_stack = <<>>
        THEN [rs EXCEPT !.panic = TRUE]
        ELSE [rs EXCEPT !.body = clear_instr_at(b1, rs.idx, "BlockAlt"),
                        !.retain_end = FALSE,
                        !.delete_block = Last(rs.block_stack)]

\* plan_resolution_block_alt on an opener or an else, with the clear_instr_at
\* and the delete_block assignment that follow a match
plan_resolution_block_alt(rs, op, block_alt) ==
    LET b1 == IF block_alt # <<>>
              THEN InjectAlternate(rs.body, rs.idx, block_alt)
              ELSE empty_alternate_at(rs.body, rs.idx)
    IN  IF rs.block_stack = <<>>
        THEN [rs EXCEPT !.panic = TRUE]
        ELSE [rs EXCEPT !.body = clear_instr_at(b1, rs.idx, "BlockAlt"),
                        !.retain_end = IsElse(op),
                        !.delete_block = Last(rs.block_stack)]

\* the block_alt / deletion part shared by the opener and the else arm;
\* skip tells that the arm ended with continue
AltOrDelete(rs, op, flag) ==
    IF flag.block_alt.some /\ rs.delete_block = None
    THEN [rs |-> plan_resolution_block_alt(rs, op, flag.block_alt.body), skip |-> TRUE]
    ELSE IF rs.delete_block # None
         THEN [rs |-> [rs EXCEPT !.body = empty_alternate_at(@, rs.idx)], skip |-> TRUE]
         ELSE [rs |-> rs, skip |-> FALSE]

\* the drain with a slip: the bucket of the block stays in resolve_on_end
DrainAtEnd_bucket_kept(rs, block_id) ==
    LET b1 == ResolveModeMap(rs.body, rs.resolve_on_else_or_end, rs.idx)
        b2 == IF block_id \in DOMAIN rs.resolve_on_end
              THEN ResolveModeMap(b1, rs.resolve_on_end[block_id], rs.idx) ELSE b1
    IN  [rs EXCEPT !.body = b2,
                   !.resolve_on_else_or_end = NoModeMap]

\* the drain of both tables at an end that is kept
DrainAtEnd(rs, block_id) ==
    LET b1 == ResolveModeMap(rs.body, rs.resolve_on_else_or_end, rs.idx)
        b2 == IF block_id \in DOMAIN rs.resolve_on_end
              THEN ResolveModeMap(b1, rs.resolve_on_end[block_id], rs.idx) ELSE b1
    IN  [rs EXCEPT !.body = b2,
                   !.resolve_on_else_or_end = NoModeMap,
                   !.resolve_on_end =
                        [b \in DOMAIN @ |-> IF b = block_id THEN NoModeMap ELSE @[b]]]

\* the Operator::End arm
EndArm(rs) ==
    IF rs.block_stack = <<>>
    THEN [rs |-> rs, skip |-> FALSE]
    ELSE LET block_id == Last(rs.block_stack)
             popped == [rs EXCEPT !.block_stack = SubSeq(@, 1, Len(@) - 1)]
         IN  IF rs.delete_block # None
             THEN IF rs.delete_block = block_id
                  THEN IF ~rs.retain_end
                       THEN [rs |-> [popped EXCEPT !.delete_block = None,
                                                   !.body = empty_alternate_at(@, rs.idx),
                                                   !.retain_end = TRUE],
                             skip |-> TRUE]
                       ELSE [rs |-> DrainAtEnd([popped EXCEPT !.delete_block = None,
                                                              !.retain_end = TRUE], block_id),
                             skip |-> FALSE]
                  ELSE [rs |-> [popped EXCEPT !.body = empty_alternate_at(@, rs.idx)],
                        skip |-> TRUE]
             ELSE [rs |-> DrainAtEnd(popped, block_id), skip |-> FALSE]

\* the match on the opcode: the structural handling of one instruction
Structural(rs, op, flag) ==
    CASE IsOpener(op) ->
            AltOrDelete([rs EXCEPT !.block_stack = Append(@, Len(@))], op, flag)
      [] IsElse(op) ->
            AltOrDelete([rs EXCEPT !.body = ResolveModeMap(@, rs.resolve_on_else_or_end, rs.idx),
                                   !.resolve_on_else_or_end = NoModeMap], op, flag)
      [] IsEnd(op) -> EndArm(rs)
      [] OTHER ->
            IF rs.delete_block # None
            THEN [rs |-> [rs EXCEPT !.body = empty_alternate_at(@, rs.idx)], skip |-> TRUE]
            ELSE [rs |-> rs, skip |-> FALSE]

\* resolve_block_entry and the clear_instr_at after it
resolve_block_entry(rs, op, block_entry) ==
    LET b1 == IF IsOpener(op) \/ IsElse(op)
              THEN InjectAfter(rs.body, rs.idx, block_entry) ELSE rs.body
    IN  [rs EXCEPT !.body = clear_instr_at(b1, rs.idx, "BlockEntry")]

\* plan_resolution_block_exit and the clear_instr_at after it
plan_resolution_block_exit(rs, op, block_exit) ==
    LET cleared == [rs EXCEPT !.body = clear_instr_at(@, rs.idx, "BlockExit")]
    IN  CASE op.op = "if" ->
                [cleared EXCEPT !.resolve_on_else_or_end =
                    save_not_flagged_body_to_resolve_inner(@, "Before", block_exit)]
          [] op.op \in {"block", "loop", "else"} ->
                IF rs.block_stack = <<>>
                THEN [rs EXCEPT !.panic = TRUE]
                ELSE [cleared EXCEPT !.resolve_on_end =
                        save_not_flagged_body_to_resolve(@, "Before", block_exit,
                                                         Last(rs.block_stack))]
          [] OTHER -> cleared

\* module_functions::add_local(I32, args, num_locals, locals): the id of the new local
add_local(rs) == rs.args + rs.num_locals

\* create_bool_flag that injects the body after every single-target branch
create_bool_flag_after_br(rs, op, semantic_after) ==
    LET bool_flag_id == add_local(rs)
        b1 == InjectBefore(rs.body, rs.idx,
                           <<Op("i32.const", 1), Op("local.set", bool_flag_id)>>)
        b2 == InjectAfter(b1, rs.idx,
                          <<Op("i32.const", 0), Op("local.set", bool_flag_id)>>)
        b3 == IF op.op \in SingleTargetBranches
              THEN InjectAfter(b2, rs.idx, semantic_after) ELSE b2
    IN  [rs EXCEPT !.body = b3, !.num_locals = @ + 1]

\* create_bool_flag: the body after the flag set / reset (and, for the branches
\* that can fall through, the semantic_after body) were injected
create_bool_flag(rs, op, semantic_after) ==
    LET bool_flag_id == add_local(rs)
        b1 == InjectBefore(rs.body, rs.idx,
                           <<Op("i32.const", 1), Op("local.set", bool_flag_id)>>)
        b2 == InjectAfter(b1, rs.idx,
                          <<Op("i32.const", 0), Op("local.set", bool_flag_id)>>)
        b3 == IF op.op \in FallthroughBranches
              THEN InjectAfter(b2, rs.idx, semantic_after) ELSE b2
    IN  [rs EXCEPT !.body = b3, !.num_locals = @ + 1]

\* the relative depths a branch names: every br_table target, then its default
BranchDepths(op) == IF op.op = "br_table" THEN Append(op.targets, op.arg) ELSE <<op.arg>>

\* plan_resolution_semantic_after and the clear_instr_at after it
plan_resolution_semantic_after(rs, op, semantic_after) ==
    LET clear(r) == [r EXCEPT !.body = clear_instr_at(@, rs.idx, "SemanticAfter")]
    IN  CASE IsOpener(op) \/ IsElse(op) ->
                IF rs.block_stack = <<>>
                THEN [rs EXCEPT !.panic = TRUE]
                ELSE clear([rs EXCEPT !.resolve_on_end =
                        save_not_flagged_body_to_resolve(@, "After", semantic_after,
                                                         Last(rs.block_stack))])
          [] op.op = "br_table" \/ op.op \in SingleTargetBranches ->
                IF \/ rs.block_stack = <<>>
                   \/ \E k \in 1..Len(BranchDepths(op)) :
                        BranchDepths(op)[k] > Last(rs.block_stack)
                THEN [rs EXCEPT !.panic = TRUE]
                ELSE LET r1 == create_bool_flag(rs, op, semantic_after)
                     IN  clear([r1 EXCEPT !.resolve_on_end =
                            SaveFlaggedAll(@, "After", semantic_after, add_local(rs),
                                           BranchDepths(op), Last(rs.block_stack))])
          [] OTHER -> clear(rs)

\* the planning of the instruction-level directives, read from the copy
Planning(rs, op, flag) ==
    IF ~has_instr(flag) THEN rs
    ELSE LET r1 == IF flag.block_entry # <<>>
                   THEN resolve_block_entry(rs, op, flag.block_entry) ELSE rs
             r2 == IF flag.block_exit # <<>> /\ ~r1.panic
                   THEN plan_resolution_block_exit(r1, op, flag.block_exit) ELSE r1
         IN  IF flag.semantic_after # <<>> /\ ~r2.panic
             THEN plan_resolution_semantic_after(r2, op, flag.semantic_after) ELSE r2

\* one iteration of the loop over readable_copy_of_body
ResolveStep(rs) ==
    LET ins == At(rs.copy, rs.idx)
        planned(st) == IF st.skip \/ st.rs.panic THEN st.rs
                       ELSE Planning(st.rs, ins.op, ins.instr_flag)
    IN  [planned(Structural(FunctionLevel(rs, ins.op), ins.op, ins.instr_flag))
            EXCEPT !.idx = rs.idx + 1]

RECURSIVE ResolveRun(_)
\* the whole loop
ResolveRun(rs) ==
    IF rs.idx >= Len(rs.copy) \/ rs.panic THEN rs ELSE ResolveRun(ResolveStep(rs))

\* ---------------------------------------------------------------- module state
VARIABLES
    imports,              \* ModuleImports: the import table and its counters
    functions,            \* Functions: the function space and recalculate_ids
    globals,              \* ModuleGlobals: the global space and recalculate_ids
    memories,             \* Memories: the memory space and recalculate_ids
    types,                \* ModuleTypes: the type table
    start,                \* Module::start
    num_local_functions,  \* Module::num_local_functions
    num_local_globals,    \* Module::num_local_globals
    num_local_memories,   \* Module::num_local_memories
    tables,               \* Module::tables
    exports,              \* Module::exports
    elements,             \* Module::elements
    data,                 \* Module::data
    data_count_section_exists,  \* Module::data_count_section_exists
    tags,                 \* Module::tags
    custom_sections,      \* Module::custom_sections
    module_name,          \* Module::module_name: <<>> for None, <<name>> for Some(name)
    out,                  \* what the last encode emitted
    prev_out,             \* what the encode before the last one emitted
    encodes,              \* number of encode calls so far
    edits,                \* number of edits so far
    last_op,              \* "parse", "edit" or "encode": the last operation
    status,               \* "ok", or "panic" once an operation panicked
    ret,                  \* what the last operation returned
    wasm,                 \* the type section of the binary given to parse
    parsed,               \* the type table parse built from wasm
    encoded,              \* the type section encode emitted for parsed
    reparsed,             \* the type table parse built from encoded
    arg,                  \* the input given to a function applied on its own
    result                \* what that function gave

modvars == <<imports, functions, globals, memories, types, start,
             num_local_functions, num_local_globals, num_local_memories>>
secvars == <<tables, exports, elements, data, data_count_section_exists, tags,
             custom_sections, module_name>>
obsvars == <<out, prev_out, encodes, edits, last_op, status, ret>>
rtvars == <<wasm, parsed, encoded, reparsed, arg, result>>
vars == <<modvars, secvars, obsvars, rtvars>>

\* Import { ty, deleted }
Import(ty) == [ty |-> ty, deleted |-> FALSE]

\* Function with FuncKind::Import(ImportedFunction { import_id, import_fn_id, .. })
ImportedFunction(import_id, import_fn_id) ==
    [kind |-> "Import", id |-> import_fn_id, import_id |-> import_id, deleted |-> FALSE,
     has_special_instr |-> FALSE, entry |-> <<>>, exit |-> <<>>,
     body |-> <<>>, args |-> 0, num_locals |-> 0, ty_id |-> 0]

\* Function with FuncKind::Local(LocalFunction { func_id, body, .. })
LocalFunction(func_id, body) ==
    [kind |-> "Local", id |-> func_id, import_id |-> None, deleted |-> FALSE,
     has_special_instr |-> FALSE, entry |-> <<>>, exit |-> <<>>,
     body |-> body, args |-> 0, num_locals |-> 0, ty_id |-> 0]

\* Global / Memory with kind Import or Local
Item(kind, id, import_id) ==
    [kind |-> kind, id |-> id, import_id |-> import_id, deleted |-> FALSE]

\* LocalOrImport
is_local(val)   == val.kind = "Local"
is_import(val)  == val.kind = "Import"
is_deleted(val) == val.deleted

\* a function body without instrumentation that calls the functions of cs
RECURSIVE CallBody(_)
CallBody(cs) ==
    IF cs = <<>> THEN <<Instruction(Op("end", None))>>
    ELSE <<Instruction(Op("call", Head(cs)))>> \o CallBody(Tail(cs))

\* the bodies a local function is given in the function-space specification:
\* empty, or one call of a function id below n
Bodies(n) == {CallBody(<<>>)} \cup {CallBody(<<t>>) : t \in 0..(n - 1)}

NoOut == [import_section |-> <<>>, function_section |-> <<>>, code |-> <<>>,
          code_was |-> <<>>, space |-> <<>>, start |-> None,
          unresolved |-> <<>>, resolved |-> <<>>, instr_code |-> <<>>,
          sections |-> <<>>,
          pre |-> [functions |-> <<>>, globals |-> <<>>, memories |-> <<>>],
          orig |-> [functions |-> 0, globals |-> 0, memories |-> 0],
          reorganised |-> [functions |-> FALSE, globals |-> FALSE, memories |-> FALSE]]

\* ---------------------------------------------------------------- parse
(***************************************************************************)
(* The module parse_internal builds (lines 515-603) from a binary with     *)
(* n_imp function imports, n_gimp global imports, n_mimp memory imports    *)
(* (in that order in the import section), local functions with the given   *)
(* bodies, n_glob local globals and n_mem local memories.                  *)
(***************************************************************************)
ParsedImports(n_imp, n_gimp, n_mimp) ==
    [imports |-> [i \in 1..(n_imp + n_gimp + n_mimp) |->
                    Import(IF i <= n_imp THEN "Func"
                           ELSE IF i <= n_imp + n_gimp THEN "Global" ELSE "Memory")],
     num_funcs |-> n_imp, num_funcs_added |-> 0,
     num_globals |-> n_gimp, num_globals_added |-> 0,
     num_memories |-> n_mimp, num_memories_added |-> 0]

ParsedFunctions(n_imp, bodies) ==
    [functions |-> [i \in 1..(n_imp + Len(bodies)) |->
                        IF i <= n_imp THEN ImportedFunction(i - 1, i - 1)
                        ELSE LocalFunction(i - 1, bodies[i - n_imp])],
     recalculate_ids |-> FALSE]

ParsedGlobals(n_imp, n_gimp, n_glob) ==
    [globals |-> [i \in 1..(n_gimp + n_glob) |->
                        IF i <= n_gimp THEN Item("Import", i - 1, n_imp + i - 1)
                        ELSE Item("Local", i - 1, None)],
     recalculate_ids |-> FALSE]

ParsedMemories(n_imp, n_gimp, n_mimp, n_mem) ==
    [memories |-> [i \in 1..(n_mimp + n_mem) |->
                        IF i <= n_mimp THEN Item("Import", i - 1, n_imp + n_gimp + i - 1)
                        ELSE Item("Local", i - 1, None)],
     recalculate_ids |-> FALSE]

\* the module parse_internal builds from a binary that has no table, export,
\* element, data, data count, tag and custom section
NoSections ==
    /\ tables = <<>> /\ exports = <<>> /\ elements = <<>> /\ data = <<>>
    /\ data_count_section_exists = FALSE
    /\ tags = <<>> /\ custom_sections = <<>> /\ module_name = <<>>

\* the parts of the initial state that do not depend on the parsed binary
InitObs ==
    /\ out = NoOut /\ prev_out = NoOut
    /\ encodes = 0 /\ edits = 0 /\ last_op = "parse" /\ status = "ok"
    /\ ret = <<>>
    /\ wasm = <<>> /\ parsed = NoTypes /\ encoded = <<>> /\ reparsed = NoTypes
    /\ arg = <<>> /\ result = <<>>

InitTypes == types = <<FuncType(<<>>, <<>>)>>

\* ---------------------------------------------------------------- reorganisation
\* reorganise_step with a slip: a local entry inside the original import range
\* is left where it is
reorganise_step_no_push(orig_num_imported, st, idx, val) ==
    LET at == idx - st.num_deleted
    IN  IF idx < orig_num_imported
        THEN IF is_local(val)
             THEN st
             ELSE IF is_deleted(val)
                  THEN [items |-> RemoveAt(st.items, at),
                        num_imported |-> st.num_imported - 1,
                        num_deleted |-> st.num_deleted + 1]
                  ELSE st
        ELSE IF is_import(val)
             THEN [items |-> InsertAt(RemoveAt(st.items, at), st.num_imported, At(st.items, at)),
                   num_imported |-> st.num_imported + 1,
                   num_deleted |-> st.num_deleted]
             ELSE IF is_deleted(val)
                  THEN [items |-> RemoveAt(st.items, at),
                        num_imported |-> st.num_imported,
                        num_deleted |-> st.num_deleted + 1]
                  ELSE st

\* reorganise_step with a slip: an import entry from behind the original import
\* range is inserted at the front instead of at num_imported
reorganise_step_insert_front(orig_num_imported, st, idx, val) ==
    LET at == idx - st.num_deleted
    IN  IF idx < orig_num_imported
        THEN IF is_local(val)
             THEN [items |-> Append(RemoveAt(st.items, at), At(st.items, at)),
                   num_imported |-> st.num_imported - 1,
                   num_deleted |-> st.num_deleted + 1]
             ELSE IF is_deleted(val)
                  THEN [items |-> RemoveAt(st.items, at),
                        num_imported |-> st.num_imported - 1,
                        num_deleted |-> st.num_deleted + 1]
                  ELSE st
        ELSE IF is_import(val)
             THEN [items |-> InsertAt(RemoveAt(st.items, at), 0, At(st.items, at)),
                   num_imported |-> st.num_imported + 1,
                   num_deleted |-> st.num_deleted]
             ELSE IF is_deleted(val)
                  THEN [items |-> RemoveAt(st.items, at),
                        num_imported |-> st.num_imported,
                        num_deleted |-> st.num_deleted + 1]
                  ELSE st

\* one iteration of the loop of reorganise_generic over the cloned list:
\* st holds items, num_imported and num_deleted; val is the entry of index idx
\* of the clone
reorganise_step(orig_num_imported, st, idx, val) ==
    LET at == idx - st.num_deleted
    IN  IF idx < orig_num_imported
        THEN IF is_local(val)
             THEN [items |-> Append(RemoveAt(st.items, at), At(st.items, at)),
                   num_imported |-> st.num_imported - 1,
                   num_deleted |-> st.num_deleted + 1]
             ELSE IF is_deleted(val)
                  THEN [items |-> RemoveAt(st.items, at),
                        num_imported |-> st.num_imported - 1,
                        num_deleted |-> st.num_deleted + 1]
                  ELSE st
        ELSE IF is_import(val)
             THEN [items |-> InsertAt(RemoveAt(st.items, at), st.num_imported, At(st.items, at)),
                   num_imported |-> st.num_imported + 1,
                   num_deleted |-> st.num_deleted]
             ELSE IF is_deleted(val)
                  THEN [items |-> RemoveAt(st.items, at),
                        num_imported |-> st.num_imported,
                        num_deleted |-> st.num_deleted + 1]
                  ELSE st

RECURSIVE reorganise_loop(_, _, _, _)
reorganise_loop(orig_num_imported, st, items_read_only, idx) ==
    IF idx >= Len(items_read_only) THEN st.items
    ELSE reorganise_loop(orig_num_imported,
                         reorganise_step(orig_num_imported, st, idx, At(items_read_only, idx)),
                         items_read_only, idx + 1)

\* reorganise_generic: the items after the reorganisation
reorganise_generic(orig_num_imported, items) ==
    reorganise_loop(orig_num_imported,
                    [items |-> items, num_imported |-> orig_num_imported, num_deleted |-> 0],
                    items, 0)

\* get_mapping_generic: old id -> new id; a later entry overwrites an earlier
\* one with the same old id
get_mapping_generic(items) ==
    [old_id \in {items[k].id : k \in 1..Len(items)} |->
        (CHOOSE k \in 1..Len(items) :
            /\ items[k].id = old_id
            /\ \A j \in 1..Len(items) : items[j].id = old_id => j <= k) - 1]

\* the assert_eq of recalculate_ids holds
MappingComplete(items) ==
    Cardinality({items[k].id : k \in 1..Len(items)}) = Len(items)

\* the items of a space after the first step of encode_internal
Reorganised(space_items, recalculate, orig_num_imported) ==
    IF recalculate THEN reorganise_generic(orig_num_imported, space_items) ELSE space_items

\* ---------------------------------------------------------------- resolve pass
\* the body of the loop of resolve_special_instrumentation for one local
\* function with has_special_instr: gives the function, the type table and panic
ResolveFunction(f, tys) ==
    LET entry0 == IF f.entry # <<>> THEN SomeBody(f.entry) ELSE NoBody
        exit0  == IF f.exit # <<>> THEN SomeBody(f.exit) ELSE NoBody
        wrap   == exit0.some /\ exit0.body # <<>>
        added  == add_func_type(tys, <<>>, At(tys, f.ty_id).results)
        entry1 == IF wrap
                  THEN SomeBody(resolve_function_exit_with_block_wrapper(entry0.body, added.id))
                  ELSE entry0
        finish(done) ==
            [function |-> [f EXCEPT !.entry = <<>>, !.exit = <<>>,
                                    !.body = done.body, !.num_locals = done.num_locals],
             types |-> IF wrap THEN added.types ELSE tys,
             panic |-> done.panic]
    IN  finish(ResolveRun(ResolverInit(f.body, f.args, f.num_locals, entry1, exit0)))

RECURSIVE ResolveFrom_flags_dropped(_, _, _)
\* the loop with a slip: a local function without special instrumentation
\* loses the bodies attached to its instructions
ResolveFrom_flags_dropped(fs, tys, rel_func_idx) ==
    IF rel_func_idx >= Len(fs) THEN [functions |-> fs, types |-> tys, panic |-> FALSE]
    ELSE LET f == At(fs, rel_func_idx)
         IN  IF is_import(f)
             THEN ResolveFrom_flags_dropped(fs, tys, rel_func_idx + 1)
             ELSE IF ~f.has_special_instr
             THEN ResolveFrom_flags_dropped(
                      [fs EXCEPT ![rel_func_idx + 1].body =
                            [k \in 1..Len(f.body) |-> Instruction(f.body[k].op)]],
                      tys, rel_func_idx + 1)
             ELSE LET resume(r) ==
                          IF r.panic
                          THEN [functions |-> fs, types |-> tys, panic |-> TRUE]
                          ELSE ResolveFrom_flags_dropped(
                                   [fs EXCEPT ![rel_func_idx + 1] = r.function],
                                   r.types, rel_func_idx + 1)
                  IN  resume(ResolveFunction(f, tys))

RECURSIVE ResolveFrom(_, _, _)
\* the loop of resolve_special_instrumentation from index rel_func_idx on
ResolveFrom(fs, tys, rel_func_idx) ==
    IF rel_func_idx >= Len(fs) THEN [functions |-> fs, types |-> tys, panic |-> FALSE]
    ELSE LET f == At(fs, rel_func_idx)
         IN  IF is_import(f) \/ ~f.has_special_instr
             THEN ResolveFrom(fs, tys, rel_func_idx + 1)
             ELSE LET resume(r) ==
                          IF r.panic
                          THEN [functions |-> fs, types |-> tys, panic |-> TRUE]
                          ELSE ResolveFrom([fs EXCEPT ![rel_func_idx + 1] = r.function],
                                           r.types, rel_func_idx + 1)
                  IN  resume(ResolveFunction(f, tys))

\* !n > 0 for a u32 n: the bitwise complement is zero only for n = u32::MAX,
\* which no counter of a model state reaches
NotIsPositive(n) == n >= 0

\* resolve_special_instrumentation
resolve_special_instrumentation(imps, fs, tys, n_local_functions) ==
    IF NotIsPositive(n_local_functions)
    THEN ResolveFrom(fs, tys, imps.num_funcs - imps.num_funcs_added)
    ELSE [functions |-> fs, types |-> tys, panic |-> FALSE]

\* ---------------------------------------------------------------- encode
\* the three id mappings of encode_internal; identity tells the emission to
\* leave the indices alone (used to record what the code held before encode)
Maps(fm, gm, mm) == [f |-> fm, g |-> gm, m |-> mm, identity |-> FALSE]
IdentityMaps == [f |-> <<>>, g |-> <<>>, m |-> <<>>, identity |-> TRUE]

\* update_fn_instr / update_global_instr / update_memory_instr do not panic on o
UpdateOk(o, maps) ==
    \/ maps.identity
    \/ /\ refers_to_func(o) => o.arg \in DOMAIN maps.f
       /\ refers_to_global(o) => o.arg \in DOMAIN maps.g
       /\ refers_to_memory(o) => o.arg \in DOMAIN maps.m

\* update_fn_instr / update_global_instr / update_memory_instr on o, where
\* they do not panic
Update(o, maps) ==
    IF maps.identity \/ ~UpdateOk(o, maps) THEN o
    ELSE IF refers_to_func(o) THEN [o EXCEPT !.arg = maps.f[@]]
    ELSE IF refers_to_global(o) THEN [o EXCEPT !.arg = maps.g[@]]
    ELSE IF refers_to_memory(o) THEN [o EXCEPT !.arg = maps.m[@]]
    ELSE o

UpdateAll(ops, maps) == [k \in 1..Len(ops) |-> Update(ops[k], maps)]
UpdateAllOk(ops, maps) == \A k \in 1..Len(ops) : UpdateOk(ops[k], maps)

\* EmitInstruction with the after body emitted although an alternate is set
\* and the opcode emitted with it
EmitInstruction_keep_op(ins, at_end, maps) ==
    LET flag == ins.instr_flag
    IN  IF ~has_instr(flag) THEN <<Update(ins.op, maps)>>
        ELSE UpdateAll(flag.before, maps)
             \o (IF ~at_end /\ flag.alternate.some
                 THEN UpdateAll(flag.alternate.body, maps) ELSE <<>>)
             \o <<Update(ins.op, maps)>>
             \o (IF ~at_end THEN UpdateAll(flag.after, maps) ELSE <<>>)

\* EmitInstruction with the final end treated as every other instruction
EmitInstruction_end_as_any(ins, at_end, maps) ==
    LET flag == ins.instr_flag
    IN  IF ~has_instr(flag) THEN <<Update(ins.op, maps)>>
        ELSE UpdateAll(flag.before, maps)
             \o (IF flag.alternate.some
                 THEN UpdateAll(flag.alternate.body, maps)
                 ELSE <<Update(ins.op, maps)>>)
             \o UpdateAll(flag.after, maps)

\* the operators encode_internal emits for one instruction (lines 1430-1507)
EmitInstruction(ins, at_end, maps) ==
    LET flag == ins.instr_flag
    IN  IF ~has_instr(flag) THEN <<Update(ins.op, maps)>>
        ELSE UpdateAll(flag.before, maps)
             \o (IF ~at_end /\ flag.alternate.some
                 THEN UpdateAll(flag.alternate.body, maps)
                 ELSE <<Update(ins.op, maps)>>)
             \o (IF ~at_end THEN UpdateAll(flag.after, maps) ELSE <<>>)

\* no index update of that emission panics
EmitInstructionOk(ins, at_end, maps) ==
    LET flag == ins.instr_flag
    IN  /\ UpdateOk(ins.op, maps)
        /\ has_instr(flag) =>
             /\ UpdateAllOk(flag.before, maps)
             /\ (~at_end /\ flag.alternate.some) => UpdateAllOk(flag.alternate.body, maps)
             /\ ~at_end => UpdateAllOk(flag.after, maps)

\* the instruction as encode_internal leaves it: the indices are updated in place
UpdateInstruction(ins, at_end, maps) ==
    LET flag == ins.instr_flag
    IN  IF ~has_instr(flag) THEN [ins EXCEPT !.op = Update(@, maps)]
        ELSE [ins EXCEPT
                !.op = Update(@, maps),
                !.instr_flag.before = UpdateAll(@, maps),
                !.instr_flag.alternate =
                    IF ~at_end /\ @.some THEN SomeBody(UpdateAll(@.body, maps)) ELSE @,
                !.instr_flag.after = IF ~at_end THEN UpdateAll(@, maps) ELSE @]

\* the operators emitted for each instruction of one function body;
\* instr_len = instructions.len() - 1
EmitBodyByInstr(body, maps) ==
    [k \in 1..Len(body) |-> EmitInstruction(body[k], k - 1 >= Len(body) - 1, maps)]

\* the code of one function body
EmitBody(body, maps) == Flatten(EmitBodyByInstr(body, maps))

EmitBodyOk(body, maps) ==
    /\ Len(body) >= 1
    /\ \A k \in 1..Len(body) : EmitInstructionOk(body[k], k - 1 >= Len(body) - 1, maps)

UpdateBody(body, maps) ==
    [k \in 1..Len(body) |-> UpdateInstruction(body[k], k - 1 >= Len(body) - 1, maps)]

\* the functions the code section loop emits: neither deleted nor imported
Emitted(f) == ~f.deleted /\ is_local(f)

\* the id of the function that import number import_id of the table backs
ImportOwner(fs, import_id) ==
    LET owners == {k \in 1..Len(fs) : is_import(fs[k]) /\ fs[k].import_id = import_id}
    IN  IF owners = {} THEN None
        ELSE fs[CHOOSE k \in owners : \A j \in owners : k <= j].id

\* the ids of the items of a space, in order
Ids(items) == [k \in 1..Len(items) |-> items[k].id]

\* Export { kind, index, deleted }
Export(kind, index) == [kind |-> kind, index |-> index, deleted |-> FALSE]

\* (ElementKind, ElementItems::Functions(funcs)) and
\* (ElementKind, ElementItems::ConstExprs { .. })
ElementFunctions(funcs) == [items |-> "Functions", funcs |-> funcs]
ElementConstExprs == [items |-> "ConstExprs", funcs |-> <<>>]

\* DataSegment { kind: Passive | Active { memory_index, .. }, .. }
DataSegment(kind, memory_index) == [kind |-> kind, memory_index |-> memory_index]

\* HashMap::get(id) of a mapping, None where the id is missing
MapGet(mapping, id) == IF id \in DOMAIN mapping THEN mapping[id] ELSE None

\* one export of the export section (lines 1281-1305): function and memory
\* indices go through their mappings, the other kinds are written as they are
EmitExport(export, maps) ==
    [kind |-> export.kind,
     index |-> CASE export.kind = "Func" -> MapGet(maps.f, export.index)
                 [] export.kind = "Memory" -> MapGet(maps.m, export.index)
                 [] OTHER -> export.index]

\* the exports of the export section
ExportSection(maps) ==
    LET live == SelectSeq(exports, LAMBDA e : ~e.deleted)
    IN  [k \in 1..Len(live) |-> EmitExport(live[k], maps)]

\* the unwrap of a mapped export index does not panic (lines 1287, 1295)
ExportsOk(maps) ==
    \A k \in 1..Len(exports) :
        \/ exports[k].deleted
        \/ EmitExport(exports[k], maps).index # None

\* the items of the segments of the element section (lines 1324-1350)
ElementSection(maps) ==
    [k \in 1..Len(elements) |->
        [items |-> elements[k].items,
         funcs |-> [j \in 1..Len(elements[k].funcs) |->
                        MapGet(maps.f, elements[k].funcs[j])]]]

\* the unwrap of a mapped element item does not panic (line 1329)
ElementsOk(maps) ==
    \A k \in 1..Len(elements) :
        \A j \in 1..Len(elements[k].funcs) : elements[k].funcs[j] \in DOMAIN maps.f

\* the segments of the data section (lines 1552-1570)
DataSection(maps) ==
    [k \in 1..Len(data) |->
        IF data[k].kind = "Active"
        THEN DataSegment("Active", MapGet(maps.m, data[k].memory_index))
        ELSE data[k]]

\* no active segment names a memory the mapping misses (lines 1560-1566)
DataOk(maps) ==
    \A k \in 1..Len(data) :
        data[k].kind = "Active" => data[k].memory_index \in DOMAIN maps.m

\* one section handed to the encoder
Section(id, items) == [id |-> id, items |-> items]

\* EmitSectionList with the data count section handed over after the code
\* section
EmitSectionList_late_data_count(tys, fs, gs, ms, maps, new_start, emitted, import_section) ==
    LET when(c, id, items) == IF c THEN <<Section(id, items)>> ELSE <<>>
    IN  when(tys # <<>>, "type", [k \in 1..Len(tys) |-> k - 1])
        \o when(imports.imports # <<>>, "import", import_section)
        \o when(fs # <<>>, "function", Ids(emitted))
        \o when(tables # <<>>, "table", tables)
        \o when(ms # <<>>, "memory", Ids(SelectSeq(ms, is_local)))
        \o when(gs # <<>>, "global",
                Ids(SelectSeq(gs, LAMBDA g : ~g.deleted /\ is_local(g))))
        \o when(exports # <<>>, "export", ExportSection(maps))
        \o when(new_start # None, "start", <<new_start>>)
        \o when(elements # <<>>, "element", ElementSection(maps))
        \o when(tags # <<>>, "tag", tags)
        \o when(NotIsPositive(num_local_functions), "code", Ids(emitted))
        \o when(data_count_section_exists, "data_count", <<Len(data)>>)
        \o when(data # <<>>, "data", DataSection(maps))
        \o <<Section("name", module_name)>>
        \o [k \in 1..Len(custom_sections) |-> Section("custom", <<custom_sections[k]>>)]

\* EmitSectionList with a data count section whenever there is a data segment
EmitSectionList_count_if_data(tys, fs, gs, ms, maps, new_start, emitted, import_section) ==
    LET when(c, id, items) == IF c THEN <<Section(id, items)>> ELSE <<>>
    IN  when(tys # <<>>, "type", [k \in 1..Len(tys) |-> k - 1])
        \o when(imports.imports # <<>>, "import", import_section)
        \o when(fs # <<>>, "function", Ids(emitted))
        \o when(tables # <<>>, "table", tables)
        \o when(ms # <<>>, "memory", Ids(SelectSeq(ms, is_local)))
        \o when(gs # <<>>, "global",
                Ids(SelectSeq(gs, LAMBDA g : ~g.deleted /\ is_local(g))))
        \o when(exports # <<>>, "export", ExportSection(maps))
        \o when(new_start # None, "start", <<new_start>>)
        \o when(elements # <<>>, "element", ElementSection(maps))
        \o when(data # <<>>, "data_count", <<Len(data)>>)
        \o when(tags # <<>>, "tag", tags)
        \o when(NotIsPositive(num_local_functions), "code", Ids(emitted))
        \o when(data # <<>>, "data", DataSection(maps))
        \o <<Section("name", module_name)>>
        \o [k \in 1..Len(custom_sections) |-> Section("custom", <<custom_sections[k]>>)]

\* the sections encode_internal hands to the encoder, in the order of its
\* calls of module.section (lines 1149-1600)
EmitSectionList(tys, fs, gs, ms, maps, new_start, emitted, import_section) ==
    LET when(c, id, items) == IF c THEN <<Section(id, items)>> ELSE <<>>
    IN  when(tys # <<>>, "type", [k \in 1..Len(tys) |-> k - 1])
        \o when(imports.imports # <<>>, "import", import_section)
        \o when(fs # <<>>, "function", Ids(emitted))
        \o when(tables # <<>>, "table", tables)
        \o when(ms # <<>>, "memory", Ids(SelectSeq(ms, is_local)))
        \o when(gs # <<>>, "global",
                Ids(SelectSeq(gs, LAMBDA g : ~g.deleted /\ is_local(g))))
        \o when(exports # <<>>, "export", ExportSection(maps))
        \o when(new_start # None, "start", <<new_start>>)
        \o when(elements # <<>>, "element", ElementSection(maps))
        \o when(data_count_section_exists, "data_count", <<Len(data)>>)
        \o when(tags # <<>>, "tag", tags)
        \o when(NotIsPositive(num_local_functions), "code", Ids(emitted))
        \o when(data # <<>>, "data", DataSection(maps))
        \o <<Section("name", module_name)>>
        \o [k \in 1..Len(custom_sections) |-> Section("custom", <<custom_sections[k]>>)]

\* encode_internal from the start remapping on: the sections it emits and the
\* state it leaves, given the resolved and reorganised spaces and the mappings
EncodeSections(res, fs, gs, ms, maps, emitted, import_section) ==
    LET orig_f == imports.num_funcs - imports.num_funcs_added
        orig_g == imports.num_globals - imports.num_globals_added
        orig_m == imports.num_memories - imports.num_memories_added
        new_start == IF start # None /\ start \in DOMAIN maps.f
                     THEN maps.f[start] ELSE None
        func_imports == SelectSeq(import_section,
                                   LAMBDA i : At(imports.imports, i).ty = "Func")
    IN  [panic |->
            \/ res.panic
            \/ functions.recalculate_ids /\ ~MappingComplete(fs)
            \/ globals.recalculate_ids /\ ~MappingComplete(gs)
            \/ memories.recalculate_ids /\ ~MappingComplete(ms)
            \/ \E k \in 1..Len(emitted) : ~EmitBodyOk(emitted[k].body, maps)
            \/ ~ExportsOk(maps) \/ ~ElementsOk(maps) \/ ~DataOk(maps),
         functions |-> [k \in 1..Len(fs) |->
                            IF Emitted(fs[k])
                            THEN [fs[k] EXCEPT !.body = UpdateBody(@, maps)] ELSE fs[k]],
         globals |-> gs,
         memories |-> ms,
         types |-> res.types,
         start |-> new_start,
         out |-> [import_section |-> import_section,
                  function_section |-> Ids(emitted),
                  code |-> [k \in 1..Len(emitted) |-> EmitBody(emitted[k].body, maps)],
                  code_was |-> [k \in 1..Len(emitted) |->
                                    EmitBody(emitted[k].body, IdentityMaps)],
                  space |-> [k \in 1..Len(func_imports) |-> ImportOwner(fs, func_imports[k])]
                            \o Ids(emitted),
                  start |-> new_start,
                  unresolved |-> functions.functions,
                  resolved |-> res.functions,
                  instr_code |-> [k \in 1..Len(res.functions) |->
                                    IF Emitted(res.functions[k])
                                    THEN EmitBodyByInstr(res.functions[k].body, maps)
                                    ELSE <<>>],
                  sections |-> EmitSectionList(res.types, fs, gs, ms, maps, new_start,
                                               emitted, import_section),
                  pre |-> [functions |-> Ids(functions.functions),
                           globals |-> Ids(globals.globals),
                           memories |-> Ids(memories.memories)],
                  orig |-> [functions |-> orig_f, globals |-> orig_g, memories |-> orig_m],
                  reorganised |-> [functions |-> functions.recalculate_ids,
                                   globals |-> globals.recalculate_ids,
                                   memories |-> memories.recalculate_ids]]]

\* encode_internal once the three spaces are reorganised: the id mappings
EncodeReorganised(res, fs, gs, ms) ==
    EncodeSections(res, fs, gs, ms,
                   Maps(get_mapping_generic(fs), get_mapping_generic(gs),
                        get_mapping_generic(ms)),
                   SelectSeq(fs, Emitted),
                   SelectIdx(imports.imports, LAMBDA i : ~i.deleted))

\* encode_internal once the resolver has run: the reorganisation of the spaces
EncodeResolved(res) ==
    EncodeReorganised(res,
        Reorganised(res.functions, functions.recalculate_ids,
                    imports.num_funcs - imports.num_funcs_added),
        Reorganised(globals.globals, globals.recalculate_ids,
                    imports.num_globals - imports.num_globals_added),
        Reorganised(memories.memories, memories.recalculate_ids,
                    imports.num_memories - imports.num_memories_added))

\* encode_internal on the given module state: the state it leaves and what it
\* emits, or panic
EncodeResult ==
    EncodeResolved(resolve_special_instrumentation(imports, functions.functions, types,
                                                   num_local_functions))

\* Module::encode
Encode ==
    /\ status = "ok"
    /\ encodes < MaxEncodes
    /\ \E r \in {EncodeResult} :
           IF r.panic
           THEN /\ status' = "panic"
                /\ UNCHANGED <<modvars, secvars, out, prev_out, encodes, edits, last_op, ret>>
           ELSE /\ functions' = [functions EXCEPT !.functions = r.functions]
                /\ globals' = [globals EXCEPT !.globals = r.globals]
                /\ memories' = [memories EXCEPT !.memories = r.memories]
                /\ types' = r.types
                /\ start' = r.start
                /\ out' = r.out
                /\ prev_out' = out
                /\ encodes' = encodes + 1
                /\ last_op' = "encode"
                /\ ret' = <<>>
                /\ UNCHANGED <<imports, num_local_functions, num_local_globals,
                               num_local_memories, edits, status>>
    /\ UNCHANGED <<secvars, rtvars>>

\* ---------------------------------------------------------------- imports
\* ModuleImports::add: append the import, count it, return its index
ImportsAdd(imps, ty) ==
    [imps EXCEPT
        !.imports = Append(@, Import(ty)),
        !.num_funcs = IF ty = "Func" THEN @ + 1 ELSE @,
        !.num_funcs_added = IF ty = "Func" THEN @ + 1 ELSE @,
        !.num_globals = IF ty = "Global" THEN @ + 1 ELSE @,
        !.num_globals_added = IF ty = "Global" THEN @ + 1 ELSE @,
        !.num_memories = IF ty = "Memory" THEN @ + 1 ELSE @,
        !.num_memories_added = IF ty = "Memory" THEN @ + 1 ELSE @]

\* ModuleImports::delete: flag the import deleted
ImportsDelete(imps, import_id) ==
    [imps EXCEPT !.imports[import_id + 1].deleted = TRUE]

\* add_import with a slip: the id is the number of imports of the kind even
\* when the module has local entries
add_import_id_num_imported(num_local, num_imported, num_total) == num_imported

\* Module::add_import: the id the new entry is given, computed before the
\* import is added
add_import_id(num_local, num_imported, num_total) ==
    IF num_local > 0 THEN num_total ELSE num_imported

\* the bookkeeping every edit shares
Edited(r) ==
    /\ edits' = edits + 1
    /\ last_op' = "edit"
    /\ ret' = r
    /\ UNCHANGED <<secvars, out, prev_out, encodes, status, rtvars>>

\* the histories explored are a parse, then edits, then encodes
CanEdit == status = "ok" /\ edits < MaxEdits /\ encodes = 0

\* ---------------------------------------------------------------- function management
\* Module::add_import_func
AddImportFunc ==
    /\ CanEdit
    /\ Len(functions.functions) < MaxFuncs
    /\ LET imp_fn_id == add_import_id(num_local_functions, imports.num_funcs,
                                      Len(functions.functions))
           imp_id == Len(imports.imports)
       IN  /\ imports' = ImportsAdd(imports, "Func")
           /\ functions' = [functions EXCEPT
                                !.functions = Append(@, ImportedFunction(imp_id, imp_fn_id)),
                                !.recalculate_ids = TRUE]
           /\ Edited(<<imp_fn_id, imp_id>>)
    /\ UNCHANGED <<globals, memories, types, start, num_local_functions,
                   num_local_globals, num_local_memories>>

\* Module::add_local_func with the given body and no params and results
AddLocalFunc ==
    /\ CanEdit
    /\ Len(functions.functions) < MaxFuncs
    /\ \E body \in Bodies(0) :
        LET ty == add_func_type(types, <<>>, <<>>)
            id == Len(functions.functions)
        IN  /\ types' = ty.types
            /\ num_local_functions' = num_local_functions + 1
            /\ functions' = [functions EXCEPT
                                !.functions = Append(@, [LocalFunction(id, body)
                                                            EXCEPT !.ty_id = ty.id])]
            /\ Edited(<<id>>)
    /\ UNCHANGED <<imports, globals, memories, start, num_local_globals, num_local_memories>>

\* Functions::delete
FunctionsDelete(fns, id) ==
    [fns EXCEPT !.recalculate_ids = TRUE, !.functions[id + 1].deleted = TRUE]

\* Module::delete_func: the function space and the import table after it
delete_func(fns, imps, function_id) ==
    LET f == At(fns.functions, function_id)
    IN  [functions |-> FunctionsDelete(fns, function_id),
         imports |-> IF is_import(f) THEN ImportsDelete(imps, f.import_id) ELSE imps]

\* Function::set_kind: the new kind, and the deleted flag is reset
set_kind(f, kind, id, import_id, body) ==
    [f EXCEPT !.kind = kind, !.id = id, !.import_id = import_id, !.body = body,
              !.deleted = FALSE]

\* Module::delete_func
DeleteFunc ==
    /\ CanEdit
    /\ \E function_id \in 0..(Len(functions.functions) - 1) :
        LET d == delete_func(functions, imports, function_id)
        IN  /\ functions' = d.functions
            /\ imports' = d.imports
    /\ Edited(<<>>)
    /\ UNCHANGED <<globals, memories, types, start, num_local_functions,
                   num_local_globals, num_local_memories>>

\* convert_import_fn_to_local with a slip: the function is converted without
\* the test for a local function
convert_import_fn_to_local_unchecked(fns, imps, import_id, body) ==
    LET d == delete_func(fns, imps, import_id)
    IN  [functions |-> [d.functions EXCEPT
                            !.functions[import_id + 1] =
                                set_kind(@, "Local", import_id, None, body)],
         imports |-> d.imports,
         ret |-> TRUE]

\* Module::convert_import_fn_to_local: the function space, the import table
\* and the value returned; the local function carries the same id
convert_import_fn_to_local(fns, imps, import_id, body) ==
    IF is_local(At(fns.functions, import_id))
    THEN [functions |-> fns, imports |-> imps, ret |-> FALSE]
    ELSE LET d == delete_func(fns, imps, import_id)
         IN  [functions |-> [d.functions EXCEPT
                                !.functions[import_id + 1] =
                                    set_kind(@, "Local", import_id, None, body)],
              imports |-> d.imports,
              ret |-> TRUE]

\* Module::convert_local_fn_to_import: the function space, the import table
\* and the value returned
convert_local_fn_to_import(fns, imps, function_id) ==
    IF is_import(At(fns.functions, function_id))
    THEN [functions |-> fns, imports |-> imps, ret |-> FALSE]
    ELSE LET d == delete_func(fns, imps, function_id)
         IN  [functions |-> [d.functions EXCEPT
                                !.functions[function_id + 1] =
                                    set_kind(@, "Import", function_id,
                                             Len(d.imports.imports), <<>>)],
              imports |-> ImportsAdd(d.imports, "Func"),
              ret |-> TRUE]

\* Module::convert_import_fn_to_local
ConvertImportFnToLocal ==
    /\ CanEdit
    /\ \E import_id \in 0..(Len(functions.functions) - 1) :
       \E body \in {CallBody(<<>>), CallBody(<<import_id>>)} :
       \E c \in {convert_import_fn_to_local(functions, imports, import_id, body)} :
            /\ functions' = c.functions
            /\ imports' = c.imports
            /\ Edited(<<c.ret>>)
    /\ UNCHANGED <<globals, memories, types, start, num_local_functions,
                   num_local_globals, num_local_memories>>

\* Module::convert_local_fn_to_import
ConvertLocalFnToImport ==
    /\ CanEdit
    /\ \E function_id \in 0..(Len(functions.functions) - 1) :
       \E c \in {convert_local_fn_to_import(functions, imports, function_id)} :
            /\ functions' = c.functions
            /\ imports' = c.imports
            /\ Edited(<<c.ret>>)
    /\ UNCHANGED <<globals, memories, types, start, num_local_functions,
                   num_local_globals, num_local_memories>>

\* ---------------------------------------------------------------- globals management
\* ModuleGlobals::delete / Memories::delete
ItemsDelete(items, id) == [items EXCEPT ![id + 1].deleted = TRUE]

\* Module::add_global: add_global_internal with a local global, whose id is
\* set by ModuleGlobals::add
AddGlobal ==
    /\ CanEdit
    /\ Len(globals.globals) < MaxItems
    /\ LET id == Len(globals.globals)
       IN  /\ num_local_globals' = num_local_globals + 1
           /\ globals' = [globals EXCEPT !.globals = Append(@, Item("Local", id, None))]
           /\ Edited(<<id>>)
    /\ UNCHANGED <<imports, functions, memories, types, start, num_local_functions,
                   num_local_memories>>

\* Module::add_imported_global
AddImportedGlobal ==
    /\ CanEdit
    /\ Len(globals.globals) < MaxItems
    /\ LET imp_global_id == add_import_id(num_local_globals, imports.num_globals,
                                          Len(globals.globals))
           imp_id == Len(imports.imports)
       IN  /\ imports' = ImportsAdd(imports, "Global")
           /\ num_local_globals' = num_local_globals + 1
           /\ globals' = [globals EXCEPT
                            !.globals = Append(@, Item("Import", imp_global_id, imp_id)),
                            !.recalculate_ids = TRUE]
           /\ Edited(<<imp_global_id, imp_id>>)
    /\ UNCHANGED <<functions, memories, types, start, num_local_functions,
                   num_local_memories>>

\* Module::delete_global
DeleteGlobal ==
    /\ CanEdit
    /\ \E global_id \in 0..(Len(globals.globals) - 1) :
        LET g == At(globals.globals, global_id)
        IN  /\ globals' = [globals EXCEPT !.globals = ItemsDelete(@, global_id),
                                          !.recalculate_ids = TRUE]
            /\ imports' = IF is_import(g) THEN ImportsDelete(imports, g.import_id)
                          ELSE imports
    /\ Edited(<<>>)
    /\ UNCHANGED <<functions, memories, types, start, num_local_functions,
                   num_local_globals, num_local_memories>>

\* ---------------------------------------------------------------- memory management
\* Module::add_local_memory
AddLocalMemory ==
    /\ CanEdit
    /\ Len(memories.memories) < MaxItems
    /\ LET id == Len(memories.memories)
       IN  /\ num_local_memories' = num_local_memories + 1
           /\ memories' = [memories EXCEPT !.memories = Append(@, Item("Local", id, None))]
           /\ Edited(<<id>>)
    /\ UNCHANGED <<imports, functions, globals, types, start, num_local_functions,
                   num_local_globals>>

\* Module::add_import_memory
AddImportMemory ==
    /\ CanEdit
    /\ Len(memories.memories) < MaxItems
    /\ LET imp_mem_id == add_import_id(num_local_memories, imports.num_memories,
                                       Len(memories.memories))
           imp_id == Len(imports.imports)
       IN  /\ imports' = ImportsAdd(imports, "Memory")
           /\ memories' = [memories EXCEPT
                            !.memories = Append(@, Item("Import", imp_mem_id, imp_id)),
                            !.recalculate_ids = TRUE]
           /\ Edited(<<imp_mem_id, imp_id>>)
    /\ UNCHANGED <<functions, globals, types, start, num_local_functions,
                   num_local_globals, num_local_memories>>

\* Module::delete_memory
DeleteMemory ==
    /\ CanEdit
    /\ \E mem_id \in 0..(Len(memories.memories) - 1) :
        LET m == At(memories.memories, mem_id)
        IN  /\ memories' = [memories EXCEPT !.memories = ItemsDelete(@, mem_id),
                                            !.recalculate_ids = TRUE]
            /\ imports' = IF is_import(m) THEN ImportsDelete(imports, m.import_id)
                          ELSE imports
    /\ Edited(<<>>)
    /\ UNCHANGED <<functions, globals, types, start, num_local_functions,
                   num_local_globals, num_local_memories>>

\* ---------------------------------------------------------------- instrumentation
\* the modes a visitor attaches a body with
Modes == {"Before", "BlockEntry", "BlockExit", "BlockAlt", "BlockAltEmpty", "SemanticAfter"}

ModeNo(mode) ==
    CASE mode = "Before" -> 1
      [] mode = "BlockEntry" -> 2
      [] mode = "BlockExit" -> 3
      [] mode = "BlockAlt" -> 4
      [] mode = "BlockAltEmpty" -> 5
      [] mode = "SemanticAfter" -> 6

\* the body a visitor injects at instruction idx in the given mode: one
\* operator that tells where it came from
Probe(idx, mode) == <<Op("i32.const", 10 * (idx + 1) + ModeNo(mode))>>

\* FunctionModifier: before_at / block_entry_at / block_exit_at / block_alt_at /
\* semantic_after_at on idx followed by inject_all of the probe;
\* empty_block_alt_at sets an empty block_alt
AttachAt(f, idx, mode) ==
    LET ops == Probe(idx, mode)
        special == mode # "Before"
        body ==
            CASE mode = "Before" ->
                    [f.body EXCEPT ![idx + 1].instr_flag.before = @ \o ops]
              [] mode = "BlockEntry" ->
                    [f.body EXCEPT ![idx + 1].instr_flag.block_entry = @ \o ops]
              [] mode = "BlockExit" ->
                    [f.body EXCEPT ![idx + 1].instr_flag.block_exit = @ \o ops]
              [] mode = "BlockAlt" ->
                    [f.body EXCEPT ![idx + 1].instr_flag.block_alt = SomeBody(@.body \o ops)]
              [] mode = "BlockAltEmpty" ->
                    [f.body EXCEPT ![idx + 1].instr_flag.block_alt = SomeBody(@.body)]
              [] mode = "SemanticAfter" ->
                    [f.body EXCEPT ![idx + 1].instr_flag.semantic_after = @ \o ops]
    IN  [f EXCEPT !.body = body,
                  !.has_special_instr = @ \/ special]

\* a visitor attaches a body to one instruction of a local function; a
\* block_alt is attached to an opener or an else
Instrument ==
    /\ CanEdit
    /\ \E func_idx \in 0..(Len(functions.functions) - 1) :
        LET f == At(functions.functions, func_idx)
        IN  /\ is_local(f)
            /\ \E idx \in 0..(Len(f.body) - 1), mode \in Modes :
                /\ mode \in {"BlockAlt", "BlockAltEmpty"} =>
                        IsOpener(At(f.body, idx).op) \/ IsElse(At(f.body, idx).op)
                /\ functions' = [functions EXCEPT
                                !.functions[func_idx + 1] = AttachAt(f, idx, mode)]
    /\ Edited(<<>>)
    /\ UNCHANGED <<imports, globals, memories, types, start, num_local_functions,
                   num_local_globals, num_local_memories>>

\* ---------------------------------------------------------------- parsed modules
\* the sequences of length n over the set S
SeqsOf(S, n) == [1..n -> S]

\* a parsed module with function imports and local functions
InitFn ==
    /\ \E n_imp \in 0..MaxParseFuncs, n_loc \in 0..MaxParseFuncs :
        /\ n_imp + n_loc >= 1
        /\ n_imp + n_loc <= MaxParseFuncs
        /\ \E bodies \in SeqsOf(Bodies(n_imp + n_loc), n_loc) :
            /\ Cardinality({k \in 1..n_loc : Len(bodies[k]) > 1}) <= MaxCallers
            /\ imports = ParsedImports(n_imp, 0, 0)
            /\ functions = ParsedFunctions(n_imp, bodies)
            /\ num_local_functions = n_loc
        /\ start \in {None} \cup 0..(n_imp + n_loc - 1)
    /\ globals = ParsedGlobals(0, 0, 0)
    /\ memories = ParsedMemories(0, 0, 0, 0)
    /\ num_local_globals = 0
    /\ num_local_memories = 0
    /\ InitTypes
    /\ NoSections
    /\ InitObs

\* ---------------------------------------------------------------- module specification
\* every edit of the manipulation API and encode
Next ==
    \/ AddImportFunc
    \/ AddLocalFunc
    \/ DeleteFunc
    \/ ConvertImportFnToLocal
    \/ ConvertLocalFnToImport
    \/ AddGlobal
    \/ AddImportedGlobal
    \/ DeleteGlobal
    \/ AddLocalMemory
    \/ AddImportMemory
    \/ DeleteMemory
    \/ Encode

Spec == InitFn /\ [][Next]_vars

\* a parsed module whose local functions hold no call and that has no start
\* function: the reorganisation of a space reads neither
InitReorganise ==
    /\ InitFn
    /\ start = None
    /\ \A k \in 1..Len(functions.functions) : Len(functions.functions[k].body) <= 1

SpecReorganise == InitReorganise /\ [][Next]_vars

\* ---------------------------------------------------------------- resolver specification
\* the instructions of a body without instrumentation
Plain(ops) == [k \in 1..Len(ops) |-> Instruction(ops[k])]

\* the structured bodies of the parsed local function: a conditional branch in
\* a block, an if with a nested block and an else, an if with a nested loop and
\* no else, a br_table under two blocks, two branches to one block, and the
\* remaining branches that can fall through
Templates ==
    {Plain(<<Op("block", None), Op("br_if", 0), Op("nop", None),
             Op("end", None), Op("end", None)>>),
     Plain(<<Op("if", None), Op("block", None), Op("end", None), Op("else", None),
             Op("end", None), Op("end", None)>>),
     Plain(<<Op("if", None), Op("loop", None), Op("end", None),
             Op("end", None), Op("end", None)>>),
     Plain(<<Op("block", None), Op("loop", None), BrTable(<<0, 1>>, 2),
             Op("end", None), Op("end", None), Op("end", None)>>),
     Plain(<<Op("block", None), Op("br", 0), Op("br_on_null", 0),
             Op("end", None), Op("end", None)>>),
     Plain(<<Op("block", None), Op("br_on_non_null", 1), Op("br_on_cast", 0),
             Op("br_on_cast_fail", 0), Op("end", None), Op("end", None)>>)}

\* a parsed module with one local function of structured control flow
InitResolve ==
    /\ \E n_imp \in 0..MaxResolveImports, body \in Templates :
        /\ imports = ParsedImports(n_imp, 0, 0)
        /\ functions = ParsedFunctions(n_imp, <<body>>)
    /\ num_local_functions = 1
    /\ start = None
    /\ globals = ParsedGlobals(0, 0, 0)
    /\ memories = ParsedMemories(0, 0, 0, 0)
    /\ num_local_globals = 0
    /\ num_local_memories = 0
    /\ InitTypes
    /\ NoSections
    /\ InitObs

\* a visitor instruments the module, an import is given a body, encode
NextResolve ==
    \/ Instrument
    \/ ConvertImportFnToLocal
    \/ Encode

SpecResolve == InitResolve /\ [][NextResolve]_vars

\* a parsed module without imports whose one local function a visitor
\* instruments before encode
InitSemanticAfter ==
    /\ InitResolve
    /\ imports.imports = <<>>

NextSemanticAfter ==
    \/ Instrument
    \/ Encode

SpecSemanticAfter == InitSemanticAfter /\ [][NextSemanticAfter]_vars

\* ---------------------------------------------------------------- round trip specification
\* the sequences over S of length at most n
SeqsUpTo(S, n) == UNION {SeqsOf(S, k) : k \in 0..n}

\* the entries a type section is made of
RecGroups ==
    {RecGroup(FALSE, <<ty>>) : ty \in TypeKinds}
        \cup {RecGroup(TRUE, tys) : tys \in SeqsUpTo(TypeKinds, MaxGroupTypes)}

\* a binary with a type section and nothing else
InitRoundTrip ==
    /\ wasm \in SeqsUpTo(RecGroups, MaxRecGroups)
    /\ parsed = NoTypes /\ encoded = <<>> /\ reparsed = NoTypes
    /\ arg = <<>> /\ result = <<>>
    /\ NoSections
    /\ imports = ParsedImports(0, 0, 0)
    /\ functions = ParsedFunctions(0, <<>>)
    /\ globals = ParsedGlobals(0, 0, 0)
    /\ memories = ParsedMemories(0, 0, 0, 0)
    /\ types = <<>>
    /\ start = None
    /\ num_local_functions = 0 /\ num_local_globals = 0 /\ num_local_memories = 0
    /\ out = NoOut /\ prev_out = NoOut
    /\ encodes = 0 /\ edits = 0 /\ last_op = "binary" /\ status = "ok"
    /\ ret = <<>>

\* Module::parse on the binary
ParseBinary ==
    /\ status = "ok" /\ last_op = "binary"
    /\ parsed' = parse_type_section(NoTypes, wasm, 0)
    /\ last_op' = "parse"
    /\ UNCHANGED <<modvars, secvars, out, prev_out, encodes, edits, status, ret,
                   wasm, encoded, reparsed, arg, result>>

\* Module::encode on the parsed module
EncodeParsed ==
    /\ status = "ok" /\ last_op = "parse"
    /\ LET r == encode_type_section(parsed)
       IN  IF r.panic
           THEN /\ status' = "panic"
                /\ UNCHANGED <<encoded, last_op>>
           ELSE /\ encoded' = r.section
                /\ last_op' = "encode"
                /\ UNCHANGED status
    /\ UNCHANGED <<modvars, secvars, out, prev_out, encodes, edits, ret, wasm, parsed, reparsed,
                   arg, result>>

\* Module::parse on what encode emitted
ParseEncoded ==
    /\ status = "ok" /\ last_op = "encode"
    /\ reparsed' = parse_type_section(NoTypes, encoded, 0)
    /\ last_op' = "reparse"
    /\ UNCHANGED <<modvars, secvars, out, prev_out, encodes, edits, status, ret,
                   wasm, parsed, encoded,
                   arg, result>>

NextRoundTrip ==
    \/ ParseBinary
    \/ EncodeParsed
    \/ ParseEncoded

SpecRoundTrip == InitRoundTrip /\ [][NextRoundTrip]_vars

\* ---------------------------------------------------------------- properties of the id spaces
\* the state is the one an encode that did not panic left
AfterEncode == last_op = "encode" /\ encodes >= 1

\* the state is the one the first encode left
AfterFirstEncode == last_op = "encode" /\ encodes = 1

\* function f occupies index i of the emitted function index space
Occupies(space, f, i) == i >= 0 /\ i < Len(space) /\ At(space, i) = f

\* the three spaces: the items after the last encode, the ids before it, the
\* original import count it used and whether it reorganised the space
Spaces ==
    {[items |-> functions.functions, pre |-> out.pre.functions,
      orig |-> out.orig.functions, reorganised |-> out.reorganised.functions],
     [items |-> globals.globals, pre |-> out.pre.globals,
      orig |-> out.orig.globals, reorganised |-> out.reorganised.globals],
     [items |-> memories.memories, pre |-> out.pre.memories,
      orig |-> out.orig.memories, reorganised |-> out.reorganised.memories]}

\* the index an entry had before the reorganisation
PrePos(sp, k) == CHOOSE p \in 0..(Len(sp.pre) - 1) : At(sp.pre, p) = sp.items[k].id

\* C1: after edits followed by encode, every call instruction that referred to
\* function f before encode is emitted with the index f occupies in the emitted
\* function index space (function imports in import-section order, then local
\* functions in function-section order)
C1_IndexConsistency ==
    AfterFirstEncode =>
        \A k \in 1..Len(out.code) : \A j \in 1..Len(out.code[k]) :
            out.code[k][j].op = "call" =>
                Occupies(out.space, out.code_was[k][j].arg, out.code[k][j].arg)

\* C2: after encode has reorganised a space, every import-kind entry is
\* positioned before every local-kind entry
C2_ImportsBeforeLocals ==
    AfterEncode =>
        \A sp \in Spaces :
            sp.reorganised =>
                \A i, j \in 1..Len(sp.items) :
                    (is_import(sp.items[i]) /\ is_local(sp.items[j])) => i < j

\* a reorganisation moved a converted function: the function space holds both
\* kinds after encode and its order differs from the order before
C2_Witness ==
    /\ AfterEncode
    /\ out.reorganised.functions
    /\ \E i, j \in 1..Len(functions.functions) :
        is_import(functions.functions[i]) /\ is_local(functions.functions[j])
    /\ out.pre.functions # [k \in 1..Len(functions.functions) |-> functions.functions[k].id]

\* C3 as stated: reorganisation preserves the relative order of any two
\* surviving entries of the same kind
C3_OrderWithinKind ==
    AfterFirstEncode =>
        \A sp \in Spaces :
            sp.reorganised =>
                \A i, j \in 1..Len(sp.items) :
                    (sp.items[i].kind = sp.items[j].kind /\ PrePos(sp, i) < PrePos(sp, j))
                        => i < j

\* C3 amended: the relative order is preserved among the import-kind entries,
\* and among the local-kind entries that lie on the same side of the original
\* import count; a local-kind entry from the original import range ends up
\* behind every local-kind entry from outside of it
C3_OrderWithinKindAmended ==
    AfterFirstEncode =>
        \A sp \in Spaces :
            sp.reorganised =>
                \A i, j \in 1..Len(sp.items) :
                    /\ (is_import(sp.items[i]) /\ is_import(sp.items[j])
                          /\ PrePos(sp, i) < PrePos(sp, j)) => i < j
                    /\ (is_local(sp.items[i]) /\ is_local(sp.items[j])
                          /\ PrePos(sp, i) < PrePos(sp, j)
                          /\ (PrePos(sp, i) < sp.orig <=> PrePos(sp, j) < sp.orig)) => i < j
                    /\ (is_local(sp.items[i]) /\ is_local(sp.items[j])
                          /\ PrePos(sp, i) < sp.orig /\ PrePos(sp, j) >= sp.orig) => j < i

\* a reorganisation moved a local function out of the original import range
\* behind another local function
C3_Witness ==
    /\ AfterFirstEncode
    /\ out.reorganised.functions
    /\ \E i, j \in 1..Len(functions.functions) :
        LET sp == [items |-> functions.functions, pre |-> out.pre.functions]
        IN  /\ is_local(functions.functions[i]) /\ is_local(functions.functions[j])
            /\ PrePos(sp, i) < out.orig.functions
            /\ PrePos(sp, j) >= out.orig.functions
            /\ j < i

\* C4: after the reorganisation of a space no entry whose deleted flag is set
\* remains in it
C4_NoDeletedRemains ==
    AfterEncode =>
        \A sp \in Spaces :
            sp.reorganised => \A k \in 1..Len(sp.items) : ~sp.items[k].deleted

\* C5: a second encode with no edit in between emits what the first emitted,
\* does not remap the start index and the indices in the code again, and
\* leaves the order of the spaces alone
C5_EncodeIdempotent ==
    (last_op = "encode" /\ encodes = 2) =>
        /\ out.code = prev_out.code
        /\ out.start = prev_out.start
        /\ out.import_section = prev_out.import_section
        /\ out.function_section = prev_out.function_section
        /\ out.pre.functions = [k \in 1..Len(functions.functions) |-> functions.functions[k].id]
        /\ out.pre.globals = [k \in 1..Len(globals.globals) |-> globals.globals[k].id]
        /\ out.pre.memories = [k \in 1..Len(memories.memories) |-> memories.memories[k].id]

\* ---------------------------------------------------------------- properties of the round trip
\* C6: for a binary that parse accepts, encode gives a binary, and parsing it
\* gives the type table and the rec-group map of the first parse
C6_RoundTrip ==
    /\ status # "panic"
    /\ last_op = "reparse" =>
            /\ reparsed.types = parsed.types
            /\ reparsed.recgroup_map = parsed.recgroup_map

\* ---------------------------------------------------------------- properties of the resolver
\* positions are counted from 1 in this section: instruction idx is position idx + 1

\* the id on top of the block stack when the walk reaches position k: the
\* openers minus the ends before k
Depth(U, k) ==
    Cardinality({j \in 1..(k - 1) : IsOpener(U[j].op)})
        - Cardinality({j \in 1..(k - 1) : IsEnd(U[j].op)})

\* the id of the block an opener at k opens, or of the block an else at k is in
BlockIdOf(U, k) == IF IsOpener(U[k].op) THEN Depth(U, k) + 1 ELSE Depth(U, k)

\* the first end from position k on that closes the block with id b
EndOf(U, k, b) ==
    CHOOSE e \in k..Len(U) :
        /\ IsEnd(U[e].op) /\ Depth(U, e) = b
        /\ \A x \in k..(e - 1) : ~(IsEnd(U[x].op) /\ Depth(U, x) = b)

\* the matching end of the opener or else at j
RegionEnd(U, j) == EndOf(U, j + 1, BlockIdOf(U, j))

\* an opener or else at j with block_alt set
AltAt(U, j) == (IsOpener(U[j].op) \/ IsElse(U[j].op)) /\ U[j].instr_flag.block_alt.some

\* position i lies in a block that a block_alt before i removes
Enclosed(U, i) == \E j \in 1..(i - 1) : AltAt(U, j) /\ i <= RegionEnd(U, j)

\* position i is neither removed nor the place of the block_alt
Live(U, i) == ~Enclosed(U, i) /\ ~AltAt(U, i)

\* x is a contiguous part of s
Contains(s, x) == \E a \in 0..(Len(s) - Len(x)) : SubSeq(s, a + 1, a + Len(x)) = x

\* an operator of x is among the bodies the instruction carries
Occurs(ins, x) ==
    \E y \in {x[k] : k \in 1..Len(x)} :
        \/ \E k \in 1..Len(ins.instr_flag.before) : ins.instr_flag.before[k] = y
        \/ \E k \in 1..Len(ins.instr_flag.after) : ins.instr_flag.after[k] = y
        \/ \E k \in 1..Len(ins.instr_flag.alternate.body) : ins.instr_flag.alternate.body[k] = y

\* the local functions the first encode resolved: position, body before and
\* body after the resolver
ResolvedBodies ==
    {[U |-> out.unresolved[k].body, R |-> out.resolved[k].body, code |-> out.instr_code[k]] :
        k \in {k \in 1..Len(out.unresolved) :
                is_local(out.unresolved[k]) /\ ~out.unresolved[k].deleted}}

\* C7: after resolve_special_instrumentation no instruction of a local function
\* carries a non-empty block_entry, block_exit or semantic_after body or a set
\* block_alt
C7_ResolverErasure ==
    AfterFirstEncode =>
        \A k \in 1..Len(out.resolved) :
            is_local(out.resolved[k]) =>
                \A j \in 1..Len(out.resolved[k].body) :
                    LET flag == out.resolved[k].body[j].instr_flag
                    IN  /\ flag.block_entry = <<>>
                        /\ flag.block_exit = <<>>
                        /\ flag.semantic_after = <<>>
                        /\ ~flag.block_alt.some

\* C8: when block_alt is set on an opener and no enclosing deletion is active,
\* the code emitted from the opener to its matching end is the alt body (with
\* what was attached before the opener and around the end): no interior
\* instruction and no body attached to one is emitted
C8_BlockAltReplacesRange ==
    AfterFirstEncode =>
        \A b \in ResolvedBodies :
            \A i \in 1..Len(b.U) :
                (IsOpener(b.U[i].op) /\ b.U[i].instr_flag.block_alt.some /\ ~Enclosed(b.U, i)) =>
                    LET e == RegionEnd(b.U, i)
                    IN  /\ b.code[i] = b.U[i].instr_flag.before
                                        \o b.U[i].instr_flag.block_alt.body
                                        \o b.U[i].instr_flag.after
                        /\ \A j \in (i + 1)..(e - 1) : b.code[j] = <<>>
                        /\ b.code[e] = b.U[e].instr_flag.before \o b.U[e].instr_flag.after

\* the else of the if at i, or its matching end when it has none
IfTarget(U, i) ==
    LET e == RegionEnd(U, i)
        elses == {x \in (i + 1)..(e - 1) : IsElse(U[x].op) /\ Depth(U, x) = BlockIdOf(U, i)}
    IN  IF elses = {} THEN e ELSE CHOOSE x \in elses : TRUE

\* the body x is injected before position t of R and nowhere else
InjectedOnlyBefore(R, t, x) ==
    /\ Contains(R[t].instr_flag.before, x)
    /\ \A j \in 1..Len(R) : j # t => ~Occurs(R[j], x)
    /\ ~Occurs([R[t] EXCEPT !.instr_flag.before = <<>>], x)

\* C9 for an if: a block_exit body on an if is injected immediately before the
\* if's own else, or before its own matching end when it has no else, and
\* nowhere else
C9_IfBlockExit ==
    AfterFirstEncode =>
        \A b \in ResolvedBodies :
            \A i \in 1..Len(b.U) :
                (b.U[i].op.op = "if" /\ b.U[i].instr_flag.block_exit # <<>> /\ Live(b.U, i)) =>
                    InjectedOnlyBefore(b.R, IfTarget(b.U, i), b.U[i].instr_flag.block_exit)

\* C9 for the other blocks: a block_exit body on a block, loop or else is
\* injected immediately before the matching end of that same block, and
\* nowhere else
C9_BlockExitAtOwnEnd ==
    AfterFirstEncode =>
        \A b \in ResolvedBodies :
            \A i \in 1..Len(b.U) :
                (b.U[i].op.op \in {"block", "loop", "else"}
                    /\ b.U[i].instr_flag.block_exit # <<>> /\ Live(b.U, i)) =>
                    InjectedOnlyBefore(b.R, RegionEnd(b.U, i), b.U[i].instr_flag.block_exit)

\* C9: both parts
C9_BlockExit == C9_IfBlockExit /\ C9_BlockExitAtOwnEnd

\* the branches create_bool_flag and save_flagged_body_to_resolve serve
Branches == {"br", "br_table"} \cup FallthroughBranches

\* position i of U holds a branch with a semantic_after body outside any
\* deleted block
FlaggedBranch(U, i) ==
    /\ U[i].op.op \in Branches
    /\ U[i].instr_flag.semantic_after # <<>>
    /\ Live(U, i)

\* the branch at i was given the flag local f: the flag is set before it, reset
\* after it, the body follows unguarded when the branch can fall through, and
\* for each target the body, guarded by f, is injected after the end of the
\* block with id (depth - relative depth)
ScheduledWith(U, R, i, f) ==
    LET sa == U[i].instr_flag.semantic_after
        depths == BranchDepths(U[i].op)
    IN  /\ Contains(R[i].instr_flag.before, <<Op("i32.const", 1), Op("local.set", f)>>)
        /\ Contains(R[i].instr_flag.after, <<Op("i32.const", 0), Op("local.set", f)>>)
        /\ U[i].op.op \in FallthroughBranches =>
                Contains(R[i].instr_flag.after,
                         <<Op("i32.const", 0), Op("local.set", f)>> \o sa)
        /\ \A d \in 1..Len(depths) :
                LET e == EndOf(U, i, Depth(U, i) - depths[d])
                IN  Contains(R[e].instr_flag.after,
                             <<Op("local.get", f), Op("if", None)>> \o sa)

\* C10: every branch that carries a semantic_after body outside any deleted
\* block has the body scheduled, guarded by the branch's flag local, at the end
\* of the block with id (depth - relative depth) for each target, and also
\* unguarded directly after a branch that can fall through
C10_SemanticAfterScheduled ==
    AfterFirstEncode =>
        \A b \in ResolvedBodies :
            \A i \in 1..Len(b.U) :
                FlaggedBranch(b.U, i) =>
                    \E f \in 0..Len(b.U) : ScheduledWith(b.U, b.R, i, f)

\* a br_table with a semantic_after body and targets in three blocks was
\* resolved: the body is scheduled at three ends
C10_Witness ==
    /\ AfterFirstEncode
    /\ \E b \in ResolvedBodies :
        \E i \in 1..Len(b.U) :
            /\ FlaggedBranch(b.U, i)
            /\ b.U[i].op.op = "br_table"
            /\ Cardinality({EndOf(b.U, i, Depth(b.U, i) - BranchDepths(b.U[i].op)[d]) :
                               d \in 1..Len(BranchDepths(b.U[i].op))}) = 3
            /\ \E f \in 0..Len(b.U) : ScheduledWith(b.U, b.R, i, f)

\* ---------------------------------------------------------------- function-level instrumentation
\* the function-level modes of a visitor
FuncModes == {"FuncEntry", "FuncExit"}

\* the body a visitor attaches at function level: one operator on entry, two
\* operators on exit
FuncProbe(mode) ==
    IF mode = "FuncEntry" THEN <<Op("i32.const", 7)>>
    ELSE <<Op("drop", None), Op("i32.const", 8)>>

\* FunctionModifier::func_entry / func_exit followed by inject_all
AttachFunc(f, mode) ==
    IF mode = "FuncEntry"
    THEN [f EXCEPT !.entry = @ \o FuncProbe(mode), !.has_special_instr = TRUE]
    ELSE [f EXCEPT !.exit = @ \o FuncProbe(mode), !.has_special_instr = TRUE]

\* a visitor attaches a function-level body to a local function that has none
\* of that mode yet
InstrumentFunction ==
    /\ CanEdit
    /\ \E func_idx \in 0..(Len(functions.functions) - 1), mode \in FuncModes :
        LET f == At(functions.functions, func_idx)
        IN  /\ is_local(f)
            /\ mode = "FuncEntry" => f.entry = <<>>
            /\ mode = "FuncExit" => f.exit = <<>>
            /\ functions' = [functions EXCEPT
                                !.functions[func_idx + 1] = AttachFunc(f, mode)]
    /\ Edited(<<>>)
    /\ UNCHANGED <<imports, globals, memories, types, start, num_local_functions,
                   num_local_globals, num_local_memories>>

\* the bodies of the parsed local function of the function-exit specification:
\* no exit point, a return, a trap in a block and a return, a return_call and
\* a throw in the arms of an if, the remaining return and trap operators, and
\* the empty function
ExitTemplates ==
    {Plain(<<Op("nop", None), Op("end", None)>>),
     Plain(<<Op("return", None), Op("end", None)>>),
     Plain(<<Op("block", None), Op("unreachable", None), Op("end", None),
             Op("return", None), Op("end", None)>>),
     Plain(<<Op("if", None), Op("return_call", 0), Op("else", None), Op("throw", 0),
             Op("end", None), Op("end", None)>>),
     Plain(<<Op("return_call_indirect", 0), Op("return_call_ref", 0), Op("rethrow", 0),
             Op("throw_ref", None), Op("resume_throw", 0), Op("end", None)>>),
     Plain(<<Op("end", None)>>)}

\* a parsed module with one local function that holds exit points
InitFuncExit ==
    /\ \E n_imp \in 0..MaxResolveImports, body \in ExitTemplates :
        /\ imports = ParsedImports(n_imp, 0, 0)
        /\ functions = ParsedFunctions(n_imp, <<body>>)
    /\ num_local_functions = 1
    /\ start = None
    /\ globals = ParsedGlobals(0, 0, 0)
    /\ memories = ParsedMemories(0, 0, 0, 0)
    /\ num_local_globals = 0
    /\ num_local_memories = 0
    /\ InitTypes
    /\ NoSections
    /\ InitObs

\* a visitor instruments the function or its instructions, an import is given
\* a body, encode
NextFuncExit ==
    \/ InstrumentFunction
    \/ Instrument
    \/ ConvertImportFnToLocal
    \/ Encode

SpecFuncExit == InitFuncExit /\ [][NextFuncExit]_vars

\* ---------------------------------------------------------------- function-exit properties
\* the positions of the return-family and trap-family instructions of a body
ExitPoints(U) == {i \in 1..Len(U) : U[i].op.op \in ReturnFamily \cup TrapFamily}

\* the number of places where x is a contiguous part of s
CopiesIn(s, x) ==
    Cardinality({a \in 0..(Len(s) - Len(x)) : SubSeq(s, a + 1, a + Len(x)) = x})

\* the number of copies of x among the bodies the instructions of R carry
Copies(R, x) ==
    SeqSum([j \in 1..Len(R) |->
                CopiesIn(R[j].instr_flag.before, x) + CopiesIn(R[j].instr_flag.after, x)
                    + CopiesIn(R[j].instr_flag.alternate.body, x)])

\* x is the last part of s
EndsWith(s, x) == Len(s) >= Len(x) /\ SubSeq(s, Len(s) - Len(x) + 1, Len(s)) = x

\* the exit body of f is lowered into g: a copy right before every exit point,
\* the closing end of the wrapper and a copy before the last instruction, no
\* other copy, and the exit body cleared
ExitLowered(f, g) ==
    /\ g.exit = <<>>
    /\ \A i \in ExitPoints(f.body) : EndsWith(g.body[i].instr_flag.before, f.exit)
    /\ Contains(g.body[Len(g.body)].instr_flag.before, <<Op("end", None)>> \o f.exit)
    /\ Copies(g.body, f.exit) = Cardinality(ExitPoints(f.body)) + 1

\* C11: with function-exit instrumentation on a function, resolution injects
\* one copy of the exit body immediately before every return-family and
\* trap-family instruction and, at the last instruction, the closing end of the
\* wrapper followed by one copy; the copies number the exit points plus one and
\* the exit body is cleared
C11_FunctionExit ==
    AfterFirstEncode =>
        \A k \in 1..Len(out.unresolved) :
            (is_local(out.unresolved[k]) /\ out.unresolved[k].exit # <<>>) =>
                ExitLowered(out.unresolved[k], out.resolved[k])

\* C11 for the functions the loop of the resolver visits: those from the
\* original import count on
C11_FunctionExitVisited ==
    AfterFirstEncode =>
        \A k \in 1..Len(out.unresolved) :
            (is_local(out.unresolved[k]) /\ out.unresolved[k].exit # <<>>
                /\ k - 1 >= out.orig.functions) =>
                ExitLowered(out.unresolved[k], out.resolved[k])

\* a function with two exit points and an exit body was resolved
C11_Visited ==
    /\ AfterFirstEncode
    /\ \E k \in 1..Len(out.unresolved) :
        /\ is_local(out.unresolved[k]) /\ out.unresolved[k].exit # <<>>
        /\ k - 1 >= out.orig.functions
        /\ Cardinality(ExitPoints(out.unresolved[k].body)) >= 2

\* ---------------------------------------------------------------- flagged bodies specification
MaxFlagged == 3      \* flagged bodies of one bucket

\* the bodies a bucket holds
LadderBodies == {<<Op("nop", None)>>, <<Op("i32.const", 1), Op("drop", None)>>}

\* InstrBodyFlagged { body, bool_flag }
FlaggedBodies == {[body |-> b, bool_flag |-> l] : b \in LadderBodies, l \in 0..1}

\* a bucket of one mode: flagged bodies and at most one body without a flag
InitLadder ==
    /\ \E flagged \in SeqsUpTo(FlaggedBodies, MaxFlagged),
          not_flagged \in SeqsUpTo(LadderBodies, 1),
          mode \in {"Before", "After"} :
            arg = [mode |-> mode,
                   instr_to_inject |-> [flagged |-> flagged, not_flagged |-> not_flagged]]
    /\ result = <<>>
    /\ wasm = <<>> /\ parsed = NoTypes /\ encoded = <<>> /\ reparsed = NoTypes
    /\ NoSections
    /\ imports = ParsedImports(0, 0, 0)
    /\ functions = ParsedFunctions(0, <<>>)
    /\ globals = ParsedGlobals(0, 0, 0)
    /\ memories = ParsedMemories(0, 0, 0, 0)
    /\ types = <<>>
    /\ start = None
    /\ num_local_functions = 0 /\ num_local_globals = 0 /\ num_local_memories = 0
    /\ out = NoOut /\ prev_out = NoOut
    /\ encodes = 0 /\ edits = 0 /\ last_op = "input" /\ status = "ok"
    /\ ret = <<>>

\* resolve_bodies on the bucket, at an end that carries nothing yet
ResolveBodies ==
    /\ last_op = "input"
    /\ result' = resolve_bodies(Plain(<<Op("end", None)>>), arg.mode, arg.instr_to_inject, 0)
    /\ last_op' = "resolve_bodies"
    /\ UNCHANGED <<modvars, secvars, out, prev_out, encodes, edits, status, ret,
                   wasm, parsed, encoded, reparsed, arg>>

SpecLadder == InitLadder /\ [][ResolveBodies]_vars

\* ---------------------------------------------------------------- flagged bodies properties
\* the operators resolve_bodies injected
Injected ==
    IF arg.mode = "Before" THEN result[1].instr_flag.before ELSE result[1].instr_flag.after

\* the number of blocks open before position k of the operators S
OpDepth(S, k) ==
    Cardinality({j \in 1..(k - 1) : IsOpener(S[j])})
        - Cardinality({j \in 1..(k - 1) : IsEnd(S[j])})

\* the opener of the block that position k of S lies in
OpenerOf(S, k) ==
    CHOOSE j \in 1..(k - 1) :
        /\ IsOpener(S[j]) /\ OpDepth(S, j) = OpDepth(S, k) - 1
        /\ \A x \in (j + 1)..(k - 1) : ~(IsOpener(S[x]) /\ OpDepth(S, x) = OpDepth(S, k) - 1)

\* every end of S closes a block of S, every block of S is closed, every else
\* lies in an if and no if has two
WellNested(S) ==
    /\ \A k \in 1..Len(S) : IsEnd(S[k]) => OpDepth(S, k) >= 1
    /\ OpDepth(S, Len(S) + 1) = 0
    /\ \A k \in 1..Len(S) :
        IsElse(S[k]) => (OpDepth(S, k) >= 1 /\ S[OpenerOf(S, k)].op = "if")
    /\ \A k1, k2 \in 1..Len(S) :
        (IsElse(S[k1]) /\ IsElse(S[k2]) /\ k1 < k2 /\ OpDepth(S, k1) >= 1
            /\ OpDepth(S, k2) >= 1) => OpenerOf(S, k1) # OpenerOf(S, k2)

\* the positions of the ifs of S, in order
IfPositions(S) == SelectSeq([k \in 1..Len(S) |-> k], LAMBDA k : S[k].op = "if")

\* the i-th if of S is guarded by the flag of the i-th flagged body and is
\* followed by that body
Guarded(S, flagged) ==
    /\ Len(IfPositions(S)) = Len(flagged)
    /\ \A i \in 1..Len(flagged) :
        LET p == IfPositions(S)[i]
        IN  /\ p >= 2 /\ S[p - 1] = Op("local.get", flagged[i].bool_flag)
            /\ p + Len(flagged[i].body) <= Len(S)
            /\ SubSeq(S, p + 1, p + Len(flagged[i].body)) = flagged[i].body

\* the group of the flagged bodies is closed by one outer end: the last
\* operator before the bodies without a flag is the end of the first if
ClosedByOuterEnd(S, instr_to_inject) ==
    LET e == Len(S) - Len(Flatten(instr_to_inject.not_flagged))
    IN  /\ e >= 1 /\ IsEnd(S[e])
        /\ OpDepth(S, e) = 1
        /\ \A k \in 1..(e - 1) : ~(IsEnd(S[k]) /\ OpDepth(S, k) = 1)

\* C12: draining a bucket that holds n >= 1 flagged bodies injects a
\* well-nested sequence for every n: each if has one matching end and at most
\* one else, every flagged body is guarded by a local.get of its own flag, and
\* one outer end closes the group
C12_WellNestedLadder ==
    (last_op = "resolve_bodies" /\ Len(arg.instr_to_inject.flagged) >= 1) =>
        /\ WellNested(Injected)
        /\ Guarded(Injected, arg.instr_to_inject.flagged)
        /\ ClosedByOuterEnd(Injected, arg.instr_to_inject)

\* C12 for buckets of one or two flagged bodies
C12_WellNestedUpToTwo ==
    (last_op = "resolve_bodies" /\ Len(arg.instr_to_inject.flagged) \in 1..2) =>
        /\ WellNested(Injected)
        /\ Guarded(Injected, arg.instr_to_inject.flagged)
        /\ ClosedByOuterEnd(Injected, arg.instr_to_inject)

\* ---------------------------------------------------------------- direct injection specification
\* the modes whose bodies encode emits in place
DirectModes == {"Before", "After", "Alternate"}

DirectNo(mode) ==
    CASE mode = "Before" -> 7
      [] mode = "After" -> 8
      [] mode = "Alternate" -> 9

\* FunctionModifier: before_at / after_at / alternate_at on idx followed by
\* inject_all of one operator that tells where it came from
AttachDirect(f, idx, mode) ==
    LET ops == <<Op("i32.const", 10 * (idx + 1) + DirectNo(mode))>>
    IN  [f EXCEPT !.body =
            CASE mode = "Before" -> InjectBefore(@, idx, ops)
              [] mode = "After" -> InjectAfter(@, idx, ops)
              [] mode = "Alternate" -> InjectAlternate(@, idx, ops)]

\* a visitor attaches a before, after or alternate body to one instruction of
\* a local function, before an encode or between two
InstrumentDirect ==
    /\ status = "ok"
    /\ edits < MaxEdits
    /\ \E func_idx \in 0..(Len(functions.functions) - 1) :
        LET f == At(functions.functions, func_idx)
        IN  /\ is_local(f)
            /\ \E idx \in 0..(Len(f.body) - 1), mode \in DirectModes :
                /\ functions' = [functions EXCEPT
                                !.functions[func_idx + 1] = AttachDirect(f, idx, mode)]
                /\ ret' = <<func_idx, idx, mode>>
    /\ edits' = edits + 1
    /\ last_op' = "edit"
    /\ UNCHANGED <<imports, globals, memories, types, start, num_local_functions,
                   num_local_globals, num_local_memories, secvars, out, prev_out,
                   encodes, status, rtvars>>

\* the bodies of the parsed local function: the operators the injection test
\* looks for, and a block with a return
DirectTemplates ==
    {Plain(<<Op("i32.const", 2), Op("drop", None), Op("call", 0), Op("end", None)>>),
     Plain(<<Op("block", None), Op("return", None), Op("end", None), Op("end", None)>>)}

\* a parsed module with one local function
InitDirect ==
    /\ \E body \in DirectTemplates :
        functions = ParsedFunctions(0, <<body>>)
    /\ imports = ParsedImports(0, 0, 0)
    /\ num_local_functions = 1
    /\ start = None
    /\ globals = ParsedGlobals(0, 0, 0)
    /\ memories = ParsedMemories(0, 0, 0, 0)
    /\ num_local_globals = 0
    /\ num_local_memories = 0
    /\ InitTypes
    /\ NoSections
    /\ InitObs

NextDirect ==
    \/ InstrumentDirect
    \/ Encode

SpecDirect == InitDirect /\ [][NextDirect]_vars

\* ---------------------------------------------------------------- direct injection properties
\* what an instruction other than the final end is to give: its before body,
\* its alternate body or else its opcode, its after body
Piece(ins) ==
    ins.instr_flag.before
        \o (IF ins.instr_flag.alternate.some THEN ins.instr_flag.alternate.body
            ELSE <<ins.op>>)
        \o ins.instr_flag.after

\* the pieces of the instructions of U before the final end, in order
Pieces(U) == Flatten([k \in 1..(Len(U) - 1) |-> Piece(U[k])])

\* s begins with x
StartsWith(s, x) == Len(x) <= Len(s) /\ SubSeq(s, 1, Len(x)) = x

\* body V is body U with the operators ops appended to the before body of
\* instruction k
BeforeAdded(U, V, k, ops) ==
    /\ ops # <<>>
    /\ V = [U EXCEPT ![k].instr_flag.before = @ \o ops]

\* the function the module was parsed with, as the last encode and the one
\* before it found and emitted it
DirectRuns ==
    {[U0 |-> IF encodes >= 2 THEN prev_out.unresolved[1].body ELSE <<>>,
      code0 |-> IF encodes >= 2 THEN prev_out.instr_code[1] ELSE <<>>,
      U |-> out.unresolved[1].body, code |-> out.instr_code[1], emitted |-> out.code[1]]}

\* C13: for every instruction other than the final end of a function encode
\* emits the before body, then the alternate body if one is set and the opcode
\* otherwise, then the after body; an instruction without instrumentation is
\* emitted as it is, in its place; and a before body injected at one
\* instruction between two encodes changes the emitted function nowhere else
C13_DirectEmission ==
    AfterEncode =>
        \A r \in DirectRuns :
            /\ StartsWith(r.emitted, Pieces(r.U))
            /\ Len(r.emitted) = Len(Pieces(r.U)) + Len(r.code[Len(r.U)])
            /\ \A k \in 1..(Len(r.U) - 1) :
                ~has_instr(r.U[k].instr_flag) => r.code[k] = <<r.U[k].op>>
            /\ encodes >= 2 =>
                \A k \in 1..Len(r.U), n \in 1..MaxEdits :
                    (/\ n <= Len(r.U[k].instr_flag.before)
                     /\ BeforeAdded(r.U0, r.U, k,
                            SubSeq(r.U[k].instr_flag.before,
                                   Len(r.U[k].instr_flag.before) - n + 1,
                                   Len(r.U[k].instr_flag.before)))) =>
                        r.code = [r.code0 EXCEPT ![k] =
                            r.U[k].instr_flag.before
                                \o SubSeq(@, Len(r.U0[k].instr_flag.before) + 1, Len(@))]

\* an instruction before the final end that carries an alternate body was
\* emitted, then given a before body, then emitted again
C13_Witness ==
    /\ AfterEncode /\ encodes = 2
    /\ \E r \in DirectRuns :
        \E k \in 1..(Len(r.U) - 1) :
            /\ r.U[k].instr_flag.alternate.some
            /\ BeforeAdded(r.U0, r.U, k, r.U[k].instr_flag.before)

\* ---------------------------------------------------------------- sections specification
MaxData == 2      \* data segments of a module

\* the numbers of imported and of local entries a space is parsed with
Shapes == {<<0, 0>>, <<1, 0>>, <<0, 1>>, <<1, 1>>}

\* the data segments a binary or add_data gives a module with n_mem memories
DataSegments(n_mem) ==
    {DataSegment("Passive", None)} \cup {DataSegment("Active", m) : m \in 0..(n_mem - 1)}

\* the exports of a binary that exports the first entry of each space it has
ParsedExports(n_func, n_mem, n_glob) ==
    (IF n_func > 0 THEN <<Export("Func", 0)>> ELSE <<>>)
        \o <<Export("Table", 0)>>
        \o (IF n_mem > 0 THEN <<Export("Memory", 0)>> ELSE <<>>)
        \o (IF n_glob > 0 THEN <<Export("Global", 0)>> ELSE <<>>)

\* the module parse_internal builds (lines 515-603) from a binary whose spaces
\* have the shapes fn and mg, and which has every other section (full) or none
\* of them, the data segments segs and a data count section or not
ParsedSections(fn, mg, full, segs, data_count) ==
    /\ imports = ParsedImports(fn[1], mg[1], mg[1])
    /\ functions = ParsedFunctions(fn[1], [k \in 1..fn[2] |-> CallBody(<<>>)])
    /\ globals = ParsedGlobals(fn[1], mg[1], mg[2])
    /\ memories = ParsedMemories(fn[1], mg[1], mg[1], mg[2])
    /\ num_local_functions = fn[2]
    /\ num_local_globals = mg[2]
    /\ num_local_memories = mg[2]
    /\ types = IF fn = <<0, 0>> /\ ~full THEN <<>> ELSE <<FuncType(<<>>, <<>>)>>
    /\ start = IF full /\ fn # <<0, 0>> THEN 0 ELSE None
    /\ tables = IF full THEN <<"funcref">> ELSE <<>>
    /\ exports = IF full THEN ParsedExports(fn[1] + fn[2], mg[1] + mg[2], mg[1] + mg[2])
                 ELSE <<>>
    /\ elements = IF full
                  THEN <<ElementConstExprs>>
                       \o (IF fn # <<0, 0>> THEN <<ElementFunctions(<<0>>)>> ELSE <<>>)
                  ELSE <<>>
    /\ data = segs
    /\ data_count_section_exists = data_count
    /\ tags = IF full THEN <<"exception">> ELSE <<>>
    /\ custom_sections = IF full THEN <<"producers", "linking">> ELSE <<>>
    /\ module_name = IF full THEN <<"m">> ELSE <<>>

InitSections ==
    /\ \E fn \in Shapes, mg \in Shapes, full \in BOOLEAN, data_count \in BOOLEAN :
        \E segs \in SeqsUpTo(DataSegments(mg[1] + mg[2]), 1) :
            ParsedSections(fn, mg, full, segs, data_count)
    /\ InitObs

\* Module::add_data
AddData ==
    /\ status = "ok"
    /\ edits < MaxEdits
    /\ Len(data) < MaxData
    /\ \E segment \in DataSegments(Len(memories.memories)) :
        LET index == Len(data)
        IN  /\ data' = Append(data, segment)
            /\ ret' = <<index>>
    /\ edits' = edits + 1
    /\ last_op' = "edit"
    /\ UNCHANGED <<modvars, tables, exports, elements, data_count_section_exists, tags,
                   custom_sections, module_name, out, prev_out, encodes, status, rtvars>>

\* a binary is parsed, data segments are added, entries are deleted, encode
NextSections ==
    \/ AddData
    \/ DeleteFunc
    \/ DeleteMemory
    \/ DeleteGlobal
    \/ Encode

SpecSections == InitSections /\ [][NextSections]_vars

\* ---------------------------------------------------------------- sections properties
\* the place of a section in the order of the binary format as encode is to
\* keep it; the custom sections other than name come last
SectionRank(id) ==
    CASE id = "type" -> 1
      [] id = "import" -> 2
      [] id = "function" -> 3
      [] id = "table" -> 4
      [] id = "memory" -> 5
      [] id = "global" -> 6
      [] id = "export" -> 7
      [] id = "start" -> 8
      [] id = "element" -> 9
      [] id = "data_count" -> 10
      [] id = "tag" -> 11
      [] id = "code" -> 12
      [] id = "data" -> 13
      [] id = "name" -> 14
      [] id = "custom" -> 15

\* the ids of the sections the last encode emitted, in order
SectionIds == [k \in 1..Len(out.sections) |-> out.sections[k].id]

\* the custom sections other than name that the last encode emitted, in order
EmittedCustoms ==
    LET cs == SelectSeq(out.sections, LAMBDA sec : sec.id = "custom")
    IN  [k \in 1..Len(cs) |-> cs[k].items[1]]

\* the sections of the last encode come in the fixed order, none of them twice
\* but for the custom sections, which keep their parsed order
SectionsInOrder ==
    /\ \A i, j \in 1..Len(out.sections) :
        i < j =>
            \/ SectionRank(SectionIds[i]) < SectionRank(SectionIds[j])
            \/ SectionIds[i] = "custom" /\ SectionIds[j] = "custom"
    /\ EmittedCustoms = custom_sections

\* C14: whatever edits were applied before, every encode emits the sections
\* in the order type, import, function, table, memory, global, export, start,
\* element, data count, tag, code, data, name, and then the other custom
\* sections in their parsed order
C14_SectionOrder == [](AfterEncode => SectionsInOrder)

\* an encode after an edit emitted fourteen kinds of sections and two custom
\* sections
C14_Witness ==
    /\ AfterEncode /\ edits >= 1
    /\ {SectionIds[k] : k \in 1..Len(SectionIds)} =
        {"type", "import", "function", "table", "memory", "global", "export", "start",
         "element", "data_count", "tag", "code", "data", "name", "custom"}
    /\ Len(EmittedCustoms) = 2


\* C15: encode emits no section whose logical table is empty: every section
\* of the last encode holds an entry (a function, a memory, a global, a name)
C15_NoEmptySection ==
    AfterEncode => \A k \in 1..Len(out.sections) : out.sections[k].items # <<>>

\* C15 for the type, table, element, tag and data sections
C15_GuardedSections ==
    AfterEncode =>
        \A k \in 1..Len(out.sections) :
            out.sections[k].id \in {"type", "table", "element", "tag", "data"} =>
                out.sections[k].items # <<>>

\* C15 for a module that was parsed with a function import and nothing else
\* and was not edited
C15_ImportOnly ==
    (/\ AfterFirstEncode /\ edits = 0
     /\ Len(out.unresolved) = 1 /\ is_import(out.unresolved[1])
     /\ module_name = <<>>) =>
        {"function", "code", "name"} \cap {SectionIds[k] : k \in 1..Len(SectionIds)} = {}


\* the data count sections the last encode emitted
DataCounts == SelectSeq(out.sections, LAMBDA sec : sec.id = "data_count")

\* C19: encode emits a data count section if and only if the parsed binary
\* had one, and the count it carries is the number of data segments of the
\* module at that encode, those add_data appended included
C19_DataCount ==
    /\ [][data_count_section_exists' = data_count_section_exists]_vars
    /\ [](AfterEncode =>
            IF data_count_section_exists
            THEN DataCounts = <<Section("data_count", <<Len(data)>>)>>
            ELSE DataCounts = <<>>)

\* a module parsed with a data count section was given a data segment by
\* add_data, and encoded
C19_Witness ==
    /\ AfterEncode
    /\ data_count_section_exists
    /\ Len(data) = MaxData


\* ---------------------------------------------------------------- exports specification
\* the numbers of local globals the binary has
GlobalCounts == {1, 2}

\* what one reference of the binary to function, memory or global i gives the
\* module: an export, an element segment of functions or an active data segment
Reference(kind, i) ==
    [exports |-> IF kind \in {"Func", "Memory", "Global"} THEN <<Export(kind, i)>> ELSE <<>>,
     elements |-> IF kind = "Element" THEN <<ElementFunctions(<<i>>)>> ELSE <<>>,
     data |-> IF kind = "Data" THEN <<DataSegment("Active", i)>> ELSE <<>>]

\* the references a binary with n_glob globals, a function import, a local
\* function, a memory import and a local memory can hold
References(n_glob) ==
    {Reference(kind, i) : kind \in {"Func", "Memory", "Element", "Data"}, i \in 0..1}
        \cup {Reference("Global", i) : i \in 0..(n_glob - 1)}

\* a parsed module with a function import, a local function, a memory import,
\* a local memory, local globals and one reference to one of them
InitExports ==
    /\ \E n_glob \in GlobalCounts :
        /\ globals = ParsedGlobals(1, 0, n_glob)
        /\ num_local_globals = n_glob
        /\ \E r \in References(n_glob) :
            /\ exports = r.exports
            /\ elements = r.elements
            /\ data = r.data
    /\ imports = [ParsedImports(1, 0, 1) EXCEPT !.imports = <<Import("Func"), Import("Memory")>>]
    /\ functions = ParsedFunctions(1, <<CallBody(<<>>)>>)
    /\ memories = ParsedMemories(1, 0, 1, 1)
    /\ num_local_functions = 1
    /\ num_local_memories = 1
    /\ start = None
    /\ tables = <<>> /\ tags = <<>> /\ custom_sections = <<>> /\ module_name = <<>>
    /\ data_count_section_exists = FALSE
    /\ InitTypes
    /\ InitObs

\* ModuleExports: the export is flagged deleted
DeleteExport ==
    /\ CanEdit
    /\ \E export_id \in 0..(Len(exports) - 1) :
        exports' = [exports EXCEPT ![export_id + 1].deleted = TRUE]
    /\ edits' = edits + 1
    /\ last_op' = "edit"
    /\ ret' = <<>>
    /\ UNCHANGED <<modvars, tables, elements, data, data_count_section_exists, tags,
                   custom_sections, module_name, out, prev_out, encodes, status, rtvars>>

\* entries and exports are deleted, a global import is added, a function
\* import is given a body, encode
NextExports ==
    \/ DeleteFunc
    \/ DeleteMemory
    \/ DeleteGlobal
    \/ AddImportedGlobal
    \/ ConvertImportFnToLocal
    \/ DeleteExport
    \/ Encode

SpecExports == InitExports /\ [][NextExports]_vars

\* ---------------------------------------------------------------- exports properties
\* the exports that are not deleted, in order
LiveExports == SelectSeq(exports, LAMBDA e : ~e.deleted)

\* the exports the last encode emitted, in order
EmittedExports ==
    Flatten([k \in 1..Len(out.sections) |->
                IF out.sections[k].id = "export" THEN out.sections[k].items ELSE <<>>])

\* the space an export of the given kind refers to, as the last encode left it
SpaceOf(kind) ==
    CASE kind = "Func" -> functions.functions
      [] kind = "Memory" -> memories.memories
      [] kind = "Global" -> globals.globals

\* the k-th emitted export carries the index that the entry it exports has
\* after the reorganisation
ExportFollows(k) ==
    LET items == SpaceOf(LiveExports[k].kind)
    IN  \A p \in 1..Len(items) :
            (items[p].id = LiveExports[k].index /\ ~items[p].deleted) =>
                EmittedExports[k].index = p - 1

\* C16: every index of the emitted export section is the id the exported
\* function, memory or global has after the reorganisation, also where the
\* global space was renumbered
C16_ExportIndices ==
    AfterFirstEncode =>
        /\ Len(EmittedExports) = Len(LiveExports)
        /\ \A k \in 1..Len(LiveExports) : ExportFollows(k)

\* C16 for the exports of functions and memories
C16_FuncAndMemoryExports ==
    AfterFirstEncode =>
        /\ Len(EmittedExports) = Len(LiveExports)
        /\ \A k \in 1..Len(LiveExports) :
            LiveExports[k].kind \in {"Func", "Memory"} => ExportFollows(k)


\* every deleted function is one the reorganisation removes: an import inside
\* the original import range or a local function behind it
DeletedAreRemoved ==
    \A k \in 1..Len(functions.functions) :
        functions.functions[k].deleted =>
            (k <= imports.num_funcs - imports.num_funcs_added
                <=> is_import(functions.functions[k]))

\* the entry of the space with the given id is flagged deleted
DeletedIn(items, id) == \E p \in 1..Len(items) : items[p].id = id /\ items[p].deleted

\* an export that is not deleted, an element item or an active data segment
\* refers to a function or a memory that is deleted
Dangling ==
    \/ \E k \in 1..Len(exports) :
        /\ ~exports[k].deleted
        /\ \/ exports[k].kind = "Func" /\ DeletedIn(functions.functions, exports[k].index)
           \/ exports[k].kind = "Memory" /\ DeletedIn(memories.memories, exports[k].index)
    \/ \E k \in 1..Len(elements) : \E j \in 1..Len(elements[k].funcs) :
        DeletedIn(functions.functions, elements[k].funcs[j])
    \/ \E k \in 1..Len(data) :
        data[k].kind = "Active" /\ DeletedIn(memories.memories, data[k].memory_index)

\* C18: encode panics and emits nothing whenever an export of a function or a
\* memory that is not itself deleted, a function item of an element segment or
\* an active data segment refers to a deleted function or memory: no encode
\* that starts with such a reference ends without a panic
C18_PanicOnDangling ==
    [][(encodes = 0 /\ Dangling) => ~(encodes' = 1)]_vars

\* C18 where the deleted entry is one the binary was parsed with and that was
\* not given another kind
C18_PanicOnDanglingParsed ==
    [][(encodes = 0 /\ Dangling /\ DeletedAreRemoved) => ~(encodes' = 1)]_vars


\* ---------------------------------------------------------------- start function
\* the index of the entry with the given id in the space
PosOf(items, id) == (CHOOSE p \in 1..Len(items) : items[p].id = id) - 1

\* the function indices the start sections of an encode carry
StartSections(o) ==
    Flatten([k \in 1..Len(o.sections) |->
                IF o.sections[k].id = "start" THEN o.sections[k].items ELSE <<>>])

\* a body that is emitted calls a function that is deleted
CallsDeleted ==
    \E k \in 1..Len(functions.functions) :
        /\ Emitted(functions.functions[k])
        /\ \E j \in 1..Len(functions.functions[k].body) :
            /\ refers_to_func(functions.functions[k].body[j].op)
            /\ DeletedIn(functions.functions, functions.functions[k].body[j].op.arg)

\* the step is the first encode of a module that has a start function
EncodesStart ==
    /\ status = "ok" /\ encodes = 0 /\ start # None
    /\ (encodes' = 1 \/ status' = "panic")

\* the first encode ended without a panic
Encoded == encodes' = 1 /\ status' = "ok"

\* C17: when the start function was deleted before encode, encode does not
\* panic, leaves the module without a start function and emits no start
\* section; when the start function survives, the start section carries its
\* index in the reorganised function space
C17_StartRemap ==
    [][EncodesStart =>
        IF DeletedIn(functions.functions, start)
        THEN /\ status' = "panic" => CallsDeleted
             /\ Encoded => start' = None /\ StartSections(out') = <<>>
        ELSE Encoded => /\ start' = PosOf(functions'.functions, start)
                        /\ StartSections(out') = <<start'>>]_vars


\* C17 for the modules in which the reorganisation removes every deleted function
C17_StartRemapRemoved ==
    [][(EncodesStart /\ DeletedAreRemoved) =>
        IF DeletedIn(functions.functions, start)
        THEN /\ status' = "panic" => CallsDeleted
             /\ Encoded => start' = None /\ StartSections(out') = <<>>
        ELSE Encoded => /\ start' = PosOf(functions'.functions, start)
                        /\ StartSections(out') = <<start'>>]_vars


\* ---------------------------------------------------------------- parse errors
\* the payloads of the body of a binary, at most
MaxPayloads == 3

\* a payload the parser yields for the binary, or the error it yields in place
\* of one ("Malformed")
Payload(kind, value) == [kind |-> kind, value |-> value]

\* Result<Module, Error> of parse: an error and no module, or a module
Err(kind, value) == [ok |-> FALSE, error |-> <<[kind |-> kind, value |-> value]>>, module |-> <<>>]
Ok(module) == [ok |-> TRUE, error |-> <<>>, module |-> <<module>>]

\* the locals of parse_internal that the errors depend on, as they are before
\* the loop: functions and data by their lengths
ParseLocals ==
    [start |-> None, functions |-> 0, code_section_count |-> 0, code_sections |-> <<>>,
     data_section_count |-> None, data |-> 0]

\* one iteration of the loop of parse_internal: it leaves through ret or goes
\* on with locals
Return(locals, r) == [locals |-> locals, ret |-> <<r>>]
GoOn(locals) == [locals |-> locals, ret |-> <<>>]

\* the operators whose memory immediate the multi-memory check looks at
ReservedByteChecked == {"memory.grow", "memory.size"}

\* the loop body for a code section entry with the given operators
ParseCodeEntry(locals, instructions, enable_multi_memory) ==
    IF instructions # <<>> /\ Last(instructions).op # "end"
    THEN Return(locals, Err("MissingFunctionEnd", None))
    ELSE IF /\ ~enable_multi_memory
            /\ \E i \in 1..Len(instructions) :
                    instructions[i].op \in ReservedByteChecked /\ instructions[i].arg # 0
    THEN Return(locals, Err("InvalidMemoryReservedByte", None))
    ELSE GoOn([locals EXCEPT !.code_sections = Append(@, Plain(instructions))])

\* the loop body with a slip: a second start section replaces the first
ParsePayload_start_replaced(locals, payload, enable_multi_memory) ==
    CASE payload.kind = "Malformed" -> Return(locals, Err("Decode", None))
      [] payload.kind = "StartSection" -> GoOn([locals EXCEPT !.start = payload.value])
      [] payload.kind = "FunctionSection" ->
            GoOn([locals EXCEPT !.functions = @ + payload.value])
      [] payload.kind = "CodeSectionStart" ->
            GoOn([locals EXCEPT !.code_section_count = payload.value])
      [] payload.kind = "CodeSectionEntry" ->
            ParseCodeEntry(locals, payload.value, enable_multi_memory)
      [] payload.kind = "DataCountSection" ->
            GoOn([locals EXCEPT !.data_section_count = payload.value])
      [] payload.kind = "DataSection" -> GoOn([locals EXCEPT !.data = payload.value])
      [] payload.kind = "Version" ->
            IF payload.value # 1
            THEN Return(locals, Err("UnknownVersion", payload.value))
            ELSE GoOn(locals)
      [] payload.kind = "UnknownSection" ->
            Return(locals, Err("UnknownSection", payload.value))
      [] payload.kind = "End" -> GoOn(locals)

\* the loop body of parse_internal for one item of parse_all
ParsePayload(locals, payload, enable_multi_memory) ==
    CASE payload.kind = "Malformed" -> Return(locals, Err("Decode", None))
      [] payload.kind = "StartSection" ->
            IF locals.start # None
            THEN Return(locals, Err("MultipleStartSections", None))
            ELSE GoOn([locals EXCEPT !.start = payload.value])
      [] payload.kind = "FunctionSection" ->
            GoOn([locals EXCEPT !.functions = @ + payload.value])
      [] payload.kind = "CodeSectionStart" ->
            GoOn([locals EXCEPT !.code_section_count = payload.value])
      [] payload.kind = "CodeSectionEntry" ->
            ParseCodeEntry(locals, payload.value, enable_multi_memory)
      [] payload.kind = "DataCountSection" ->
            GoOn([locals EXCEPT !.data_section_count = payload.value])
      [] payload.kind = "DataSection" -> GoOn([locals EXCEPT !.data = payload.value])
      [] payload.kind = "Version" ->
            IF payload.value # 1
            THEN Return(locals, Err("UnknownVersion", payload.value))
            ELSE GoOn(locals)
      [] payload.kind = "UnknownSection" ->
            Return(locals, Err("UnknownSection", payload.value))
      [] payload.kind = "End" -> GoOn(locals)

\* the checks behind the loop with a slip: the data count is checked first
ParseEnd_data_first(locals) ==
    IF locals.data_section_count # None /\ locals.data_section_count # locals.data
    THEN Err("IncorrectDataCount",
             [declared_count |-> locals.data_section_count, actual_count |-> locals.data])
    ELSE IF \/ locals.code_section_count # Len(locals.code_sections)
            \/ locals.code_section_count # locals.functions
    THEN Err("IncorrectCodeCounts",
             [function_section_count |-> locals.functions,
              code_section_declared_count |-> locals.code_section_count,
              code_section_actual_count |-> Len(locals.code_sections)])
    ELSE Ok([start |-> locals.start,
             num_local_functions |-> Len(locals.code_sections),
             code_sections |-> locals.code_sections,
             data_count_section_exists |-> locals.data_section_count # None,
             data |-> locals.data])

\* parse_internal behind the loop: the two count checks, then the module
ParseEnd(locals) ==
    IF \/ locals.code_section_count # Len(locals.code_sections)
       \/ locals.code_section_count # locals.functions
    THEN Err("IncorrectCodeCounts",
             [function_section_count |-> locals.functions,
              code_section_declared_count |-> locals.code_section_count,
              code_section_actual_count |-> Len(locals.code_sections)])
    ELSE IF locals.data_section_count # None /\ locals.data_section_count # locals.data
    THEN Err("IncorrectDataCount",
             [declared_count |-> locals.data_section_count, actual_count |-> locals.data])
    ELSE Ok([start |-> locals.start,
             num_local_functions |-> Len(locals.code_sections),
             code_sections |-> locals.code_sections,
             data_count_section_exists |-> locals.data_section_count # None,
             data |-> locals.data])

RECURSIVE ParseLoop(_, _, _, _)
\* the loop of parse_internal from item k of the stream on
ParseNext(stream, k, step, enable_multi_memory) ==
    IF step.ret # <<>> THEN step.ret[1]
    ELSE ParseLoop(stream, k + 1, step.locals, enable_multi_memory)

ParseLoop(stream, k, locals, enable_multi_memory) ==
    IF k > Len(stream) THEN ParseEnd(locals)
    ELSE ParseNext(stream, k, ParsePayload(locals, stream[k], enable_multi_memory),
                   enable_multi_memory)

\* Module::parse on the items parse_all yields for the binary
parse_internal(stream, enable_multi_memory) ==
    ParseLoop(stream, 1, ParseLocals, enable_multi_memory)

\* the versions a header can carry: a core module, a component
Versions == {1, 13}

\* the payloads of the sections of the binaries that are parsed
SectionPayloads ==
    {Payload("StartSection", f) : f \in 0..1}
        \cup {Payload("UnknownSection", id) : id \in {14, 15}}
        \cup {Payload("FunctionSection", n) : n \in 0..1}
        \cup {Payload("CodeSectionStart", n) : n \in 0..1}
        \cup {Payload("CodeSectionEntry", <<Op("end", None)>>)}
        \cup {Payload("DataCountSection", n) : n \in 0..1}
        \cup {Payload("DataSection", n) : n \in 0..1}

\* what parse_all yields: the version, the sections, then the end of the
\* module or an error
Streams ==
    {<<Payload("Version", num)>> \o body \o <<last>> :
        num \in Versions,
        body \in SeqsUpTo(SectionPayloads, MaxPayloads),
        last \in {Payload("End", None), Payload("Malformed", None)}}

\* a binary that is about to be parsed
InitParse ==
    /\ \E stream \in Streams, enable_multi_memory \in BOOLEAN :
            arg = [wasm |-> stream, enable_multi_memory |-> enable_multi_memory]
    /\ result = <<>>
    /\ wasm = <<>> /\ parsed = NoTypes /\ encoded = <<>> /\ reparsed = NoTypes
    /\ NoSections
    /\ imports = ParsedImports(0, 0, 0)
    /\ functions = ParsedFunctions(0, <<>>)
    /\ globals = ParsedGlobals(0, 0, 0)
    /\ memories = ParsedMemories(0, 0, 0, 0)
    /\ types = <<>>
    /\ start = None
    /\ num_local_functions = 0 /\ num_local_globals = 0 /\ num_local_memories = 0
    /\ out = NoOut /\ prev_out = NoOut
    /\ encodes = 0 /\ edits = 0 /\ last_op = "input" /\ status = "ok" /\ ret = <<>>

\* Module::parse
Parse ==
    /\ last_op = "input"
    /\ result' = <<parse_internal(arg.wasm, arg.enable_multi_memory)>>
    /\ last_op' = "parse"
    /\ UNCHANGED <<modvars, secvars, out, prev_out, encodes, edits, status, ret,
                   wasm, parsed, encoded, reparsed, arg>>

SpecParse == InitParse /\ [][Parse]_vars

\* ---------------------------------------------------------------- parse error properties
\* item k of the stream is one parse does not accept: an error of the decoder,
\* a version other than 1, an unknown section, a start section behind another
Offending(stream, k) ==
    \/ stream[k].kind \in {"Malformed", "UnknownSection"}
    \/ stream[k].kind = "Version" /\ stream[k].value # 1
    \/ stream[k].kind = "StartSection"
        /\ \E j \in 1..(k - 1) : stream[j].kind = "StartSection"

\* the first offending item of the stream, 0 when there is none
FirstOffending(stream) ==
    IF \E k \in 1..Len(stream) : Offending(stream, k)
    THEN CHOOSE k \in 1..Len(stream) :
            Offending(stream, k) /\ \A j \in 1..(k - 1) : ~Offending(stream, j)
    ELSE 0

\* the error the claim gives for an offending item
ErrorFor(payload) ==
    CASE payload.kind = "StartSection" -> [kind |-> "MultipleStartSections", value |-> None]
      [] payload.kind = "Version" -> [kind |-> "UnknownVersion", value |-> payload.value]
      [] payload.kind = "UnknownSection" -> [kind |-> "UnknownSection", value |-> payload.value]
      [] payload.kind = "Malformed" -> [kind |-> "Decode", value |-> None]

\* parse has returned for a stream whose first offending item is item k
StoppedAt(k) == last_op = "parse" /\ result # <<>> /\ FirstOffending(arg.wasm) = k

\* C20: parse returns the error of the first offending item of the stream and
\* no module: MultipleStartSections for a second start section, UnknownVersion
\* for a version other than 1, UnknownSection for an unknown section id; the
\* items behind the offending one do not change the result, which is the one
\* parse gives for the stream cut behind the offending item
C20_FirstOffendingError ==
    \A k \in 1..Len(arg.wasm) :
        StoppedAt(k) =>
            /\ ~result[1].ok
            /\ result[1].module = <<>>
            /\ result[1].error = <<ErrorFor(arg.wasm[k])>>
            /\ result[1] = parse_internal(SubSeq(arg.wasm, 1, k), arg.enable_multi_memory)

\* a second start section was refused although the counts of the stream
\* disagree and another offending item follows it
C20_Witness ==
    \E k \in 1..Len(arg.wasm) :
        /\ StoppedAt(k)
        /\ arg.wasm[k].kind = "StartSection"
        /\ \E j \in (k + 1)..Len(arg.wasm) : Offending(arg.wasm, j)
        /\ \E j \in 1..(k - 1) : arg.wasm[j] = Payload("FunctionSection", 1)
        /\ result[1].error = <<[kind |-> "MultipleStartSections", value |-> None]>>


\* ---------------------------------------------------------------- count checks properties
\* the values of the payloads of the given kind, in stream order
ValuesOf(stream, kind) ==
    LET ps == SelectSeq(stream, LAMBDA p : p.kind = kind)
    IN  [k \in 1..Len(ps) |-> ps[k].value]

\* the value of the last payload of the given kind, or the given value when
\* the stream has none
LastValueOf(stream, kind, none) ==
    IF ValuesOf(stream, kind) = <<>> THEN none ELSE Last(ValuesOf(stream, kind))

\* the counts of the stream disagree: the declared count of the code section
\* with the code entries read or with the entries of the function sections
CodeCountsDiffer(stream) ==
    \/ LastValueOf(stream, "CodeSectionStart", 0)
            # Len(ValuesOf(stream, "CodeSectionEntry"))
    \/ LastValueOf(stream, "CodeSectionStart", 0)
            # SeqSum(ValuesOf(stream, "FunctionSection"))

\* the stream has a data count section and its value is not the number of
\* data segments
DataCountDiffers(stream) ==
    /\ ValuesOf(stream, "DataCountSection") # <<>>
    /\ LastValueOf(stream, "DataCountSection", None) # LastValueOf(stream, "DataSection", 0)

\* parse has consumed every payload of the stream
Consumed == last_op = "parse" /\ result # <<>> /\ FirstOffending(arg.wasm) = 0

\* the kind of the error parse returned, "Ok" for a module
ErrorKind == IF result[1].ok THEN "Ok" ELSE result[1].error[1].kind

\* C21: once every payload is consumed, parse returns IncorrectCodeCounts
\* exactly when the declared code count differs from the code entries read or
\* from the function entries, and otherwise IncorrectDataCount exactly when a
\* data count section is there and differs from the number of data segments
C21_CountChecks ==
    Consumed =>
        /\ ErrorKind = "IncorrectCodeCounts" <=> CodeCountsDiffer(arg.wasm)
        /\ ~CodeCountsDiffer(arg.wasm) =>
                (ErrorKind = "IncorrectDataCount" <=> DataCountDiffers(arg.wasm))
        /\ ~CodeCountsDiffer(arg.wasm) /\ ~DataCountDiffers(arg.wasm) => result[1].ok

\* both counts disagree and IncorrectCodeCounts is returned
C21_Witness ==
    /\ Consumed
    /\ CodeCountsDiffer(arg.wasm) /\ DataCountDiffers(arg.wasm)
    /\ ErrorKind = "IncorrectCodeCounts"


\* ---------------------------------------------------------------- code section entries
\* the operators of a code body, at most
MaxOps == 2

\* the operators the code bodies are made of: memory operators carry the
\* index of their memory
BodyOps ==
    {Op("end", None), Op("nop", None)}
        \cup {Op("memory.size", m) : m \in 0..1}
        \cup {Op(o, 1) : o \in {"memory.grow", "i32.load", "i32.store", "memory.fill"}}

\* the operator streams of two code section entries: one of any shape, the
\* other of one operator at most, in both orders
EntryPairs ==
    UNION {{<<a, b>>, <<b, a>>} :
            a \in SeqsUpTo(BodyOps, MaxOps), b \in SeqsUpTo(BodyOps, 1)}

\* what parse_all yields for a binary with a function section and a code
\* section of one entry or two
CodeStreams ==
    {<<Payload("Version", 1), Payload("FunctionSection", Len(bodies)),
       Payload("CodeSectionStart", Len(bodies))>>
        \o [k \in 1..Len(bodies) |-> Payload("CodeSectionEntry", bodies[k])]
        \o <<Payload("End", None)>> :
            bodies \in SeqsOf(SeqsUpTo(BodyOps, MaxOps), 1) \cup EntryPairs}

\* a binary with a code section that is about to be parsed
InitParseCode ==
    /\ \E stream \in CodeStreams, enable_multi_memory \in BOOLEAN :
            arg = [wasm |-> stream, enable_multi_memory |-> enable_multi_memory]
    /\ result = <<>>
    /\ wasm = <<>> /\ parsed = NoTypes /\ encoded = <<>> /\ reparsed = NoTypes
    /\ NoSections
    /\ imports = ParsedImports(0, 0, 0)
    /\ functions = ParsedFunctions(0, <<>>)
    /\ globals = ParsedGlobals(0, 0, 0)
    /\ memories = ParsedMemories(0, 0, 0, 0)
    /\ types = <<>>
    /\ start = None
    /\ num_local_functions = 0 /\ num_local_globals = 0 /\ num_local_memories = 0
    /\ out = NoOut /\ prev_out = NoOut
    /\ encodes = 0 /\ edits = 0 /\ last_op = "input" /\ status = "ok" /\ ret = <<>>

SpecParseCode == InitParseCode /\ [][Parse]_vars

\* ---------------------------------------------------------------- code body properties
\* the operator streams of the code section entries of the binary
EntryBodies == ValuesOf(arg.wasm, "CodeSectionEntry")

\* parse has returned
Parsed == last_op = "parse" /\ result # <<>>

\* the operator stream ends with end
EndsWithEnd(instructions) == instructions # <<>> /\ Last(instructions).op = "end"

\* the bodies of the module parse returned
StoredBodies == result[1].module[1].code_sections

\* C22: parse returns MissingFunctionEnd for every code body whose operators
\* do not end with end, a body without operators included, so that every body
\* of a returned module has an instruction and ends with end
C22_BodiesEndWithEnd ==
    Parsed =>
        /\ (\E k \in 1..Len(EntryBodies) : ~EndsWithEnd(EntryBodies[k])) => ~result[1].ok
        /\ result[1].ok =>
                \A k \in 1..Len(StoredBodies) :
                    /\ Len(StoredBodies[k]) >= 1
                    /\ Last(StoredBodies[k]).op.op = "end"

\* C22 for the bodies that have an operator: the first body that does not end
\* with end gives MissingFunctionEnd unless a body before it was refused
C22_NonEmptyBodiesEndWithEnd ==
    Parsed =>
        \A k \in 1..Len(EntryBodies) :
            (/\ EntryBodies[k] # <<>> /\ ~EndsWithEnd(EntryBodies[k])
             /\ \A j \in 1..(k - 1) : EndsWithEnd(EntryBodies[j]) \/ EntryBodies[j] = <<>>)
                => \/ ErrorKind = "MissingFunctionEnd"
                   \/ ErrorKind = "InvalidMemoryReservedByte"


\* the operators of the model that carry a memory immediate
HasMemoryImmediate(o) ==
    o.op \in {"memory.size", "memory.grow", "i32.load", "i32.store", "memory.fill"}

\* an operator of the stream has a memory immediate other than zero
NonZeroMemory(instructions) ==
    \E i \in 1..Len(instructions) :
        HasMemoryImmediate(instructions[i]) /\ instructions[i].arg # 0

\* memory.size or memory.grow of the stream has a memory immediate other than zero
NonZeroSizeOrGrow(instructions) ==
    \E i \in 1..Len(instructions) :
        instructions[i].op \in {"memory.size", "memory.grow"} /\ instructions[i].arg # 0

\* every code body of the binary ends with end
AllEndWithEnd == \A k \in 1..Len(EntryBodies) : EndsWithEnd(EntryBodies[k])

\* C23: without enable_multi_memory parse refuses with InvalidMemoryReservedByte
\* every code body with an operator whose memory immediate is not zero, loads,
\* stores and bulk memory operators included; with enable_multi_memory no body
\* is refused for this
C23_MemoryImmediates ==
    (Parsed /\ AllEndWithEnd) =>
        IF arg.enable_multi_memory
        THEN result[1].ok
        ELSE (\E k \in 1..Len(EntryBodies) : NonZeroMemory(EntryBodies[k]))
                => ErrorKind = "InvalidMemoryReservedByte"

\* C23 for memory.size and memory.grow alone
C23_SizeAndGrow ==
    (Parsed /\ AllEndWithEnd) =>
        IF arg.enable_multi_memory
        THEN result[1].ok
        ELSE (\E k \in 1..Len(EntryBodies) : NonZeroSizeOrGrow(EntryBodies[k]))
                <=> ErrorKind = "InvalidMemoryReservedByte"


\* ---------------------------------------------------------------- add_import_func properties
\* the step is a call of add_import_func
AddsImportFunc ==
    /\ last_op' = "edit" /\ edits' = edits + 1
    /\ Len(functions'.functions) = Len(functions.functions) + 1
    /\ is_import(Last(functions'.functions))

\* the function management of a parsed module, without an encode
NextFunctionEdits ==
    \/ AddImportFunc
    \/ AddLocalFunc
    \/ DeleteFunc
    \/ ConvertImportFnToLocal
    \/ ConvertLocalFnToImport

SpecFunctionEdits == InitFn /\ [][NextFunctionEdits]_vars

MaxImports == 3

\* the positions of the imports of the given kind in the import section
ImportsOf(kinds, ty) == SelectIdx(kinds, LAMBDA k : k = ty)

\* the import table parse_internal builds for an import section of the given kinds
ImportsNew(kinds) ==
    [imports |-> [i \in 1..Len(kinds) |-> Import(kinds[i])],
     num_funcs |-> Len(ImportsOf(kinds, "Func")), num_funcs_added |-> 0,
     num_globals |-> Len(ImportsOf(kinds, "Global")), num_globals_added |-> 0,
     num_memories |-> Len(ImportsOf(kinds, "Memory")), num_memories_added |-> 0]

\* the function space parse_internal builds: one imported function for every
\* function import, in the order of the import section, then the local functions
FinalFuncs(kinds, n_loc) ==
    LET imps == ImportsOf(kinds, "Func")
    IN  [i \in 1..(Len(imps) + n_loc) |->
            IF i <= Len(imps) THEN ImportedFunction(imps[i], i - 1)
            ELSE LocalFunction(i - 1, CallBody(<<>>))]

\* the imported entries of the global or memory space parse_internal builds
FinalItems(kinds, ty) ==
    LET imps == ImportsOf(kinds, ty)
    IN  [i \in 1..Len(imps) |-> Item("Import", i - 1, imps[i])]

\* a parsed module whose import section mixes function, memory and global imports
InitConvert ==
    /\ \E kinds \in SeqsUpTo({"Func", "Memory", "Global"}, MaxImports),
          n_loc \in 0..1 :
        /\ Len(ImportsOf(kinds, "Func")) + n_loc >= 1
        /\ imports = ImportsNew(kinds)
        /\ functions = [functions |-> FinalFuncs(kinds, n_loc), recalculate_ids |-> FALSE]
        /\ globals = [globals |-> FinalItems(kinds, "Global"), recalculate_ids |-> FALSE]
        /\ memories = [memories |-> FinalItems(kinds, "Memory"), recalculate_ids |-> FALSE]
        /\ num_local_functions = n_loc
    /\ num_local_globals = 0 /\ num_local_memories = 0
    /\ start = None
    /\ NoSections
    /\ InitTypes
    /\ InitObs

\* the bookkeeping of a call whose arguments are kept
Called(op, id, r) ==
    /\ arg' = [op |-> op, id |-> id]
    /\ ret' = r
    /\ edits' = edits + 1
    /\ last_op' = "edit"
    /\ UNCHANGED <<globals, memories, types, start, num_local_functions,
                   num_local_globals, num_local_memories,
                   secvars, out, prev_out, encodes, status,
                   wasm, parsed, encoded, reparsed, result>>

\* Module::convert_import_fn_to_local called with the id of an import; the
\* id is one the function space has an entry for
ConvertImportFnToLocalCall ==
    /\ CanEdit
    /\ \E import_id \in 0..(Len(imports.imports) - 1) :
        /\ import_id < Len(functions.functions)
        /\ \E c \in {convert_import_fn_to_local(functions, imports, import_id,
                                                CallBody(<<>>))} :
            /\ functions' = c.functions
            /\ imports' = c.imports
            /\ Called("convert_import_fn_to_local", import_id, <<c.ret>>)

\* Module::convert_local_fn_to_import called with the id of a function
ConvertLocalFnToImportCall ==
    /\ CanEdit
    /\ \E function_id \in 0..(Len(functions.functions) - 1) :
       \E c \in {convert_local_fn_to_import(functions, imports, function_id)} :
            /\ functions' = c.functions
            /\ imports' = c.imports
            /\ Called("convert_local_fn_to_import", function_id, <<c.ret>>)

NextConvert == ConvertImportFnToLocalCall \/ ConvertLocalFnToImportCall

SpecConvert == InitConvert /\ [][NextConvert]_vars

\* ---------------------------------------------------------------- conversion properties
\* the step is a call of the given operation that returned the given value
Returned(op, r) == last_op' = "edit" /\ edits' = edits + 1 /\ arg'.op = op /\ ret' = <<r>>

\* the functions the import backs in the function space
BackedBy(fns, import_id) ==
    {k \in 1..Len(fns) : is_import(fns[k]) /\ fns[k].import_id = import_id}

\* C25: a successful convert_import_fn_to_local(import_id, body) flags the
\* entry import_id of the import table deleted and makes the function that
\* import backs a local function, also when function ids and import ids differ
C25_ConvertsBackedFunction ==
    [][Returned("convert_import_fn_to_local", TRUE) =>
        /\ imports'.imports[arg'.id + 1].deleted
        /\ \A k \in BackedBy(functions.functions, arg'.id) :
                is_local(functions'.functions[k])
        /\ BackedBy(functions.functions, arg'.id) # {}]_vars

\* C25 for the modules in which no other import precedes a function import, so
\* that a function import and its function carry the same id
C25_ConvertsWhenIdsAgree ==
    [][(/\ Returned("convert_import_fn_to_local", TRUE)
        /\ \A k \in 1..Len(functions.functions) :
            is_import(functions.functions[k]) => functions.functions[k].import_id = k - 1)
        =>
        /\ imports'.imports[arg'.id + 1].deleted
        /\ \A k \in BackedBy(functions.functions, arg'.id) :
                is_local(functions'.functions[k])
        /\ BackedBy(functions.functions, arg'.id) # {}]_vars


\* the step is a call of a conversion on a function that already has the
\* kind asked for
ConvertsInVain ==
    /\ last_op' = "edit" /\ edits' = edits + 1
    /\ \/ /\ arg'.op = "convert_local_fn_to_import"
          /\ is_import(At(functions.functions, arg'.id))
       \/ /\ arg'.op = "convert_import_fn_to_local"
          /\ is_local(At(functions.functions, arg'.id))

\* C26: convert_local_fn_to_import on a function that is an import and
\* convert_import_fn_to_local on a function that is local return false and
\* leave the function space, the import table, the deleted flags and the
\* counters as they were
C26_RejectedConversion ==
    [][ConvertsInVain => (ret' = <<FALSE>> /\ UNCHANGED modvars)]_vars

\* a conversion was refused after an earlier edit of the module
C26_Witness ==
    /\ last_op = "edit" /\ edits = 2 /\ ret = <<FALSE>>
    /\ arg.op = "convert_import_fn_to_local"
    /\ functions.recalculate_ids


\* ---------------------------------------------------------------- resolve pass without special instrumentation
\* no function of the module has special instrumentation
NoSpecialInstr ==
    \A k \in 1..Len(functions.functions) : ~functions.functions[k].has_special_instr

\* the step is an encode that ended without a panic
Encodes == status = "ok" /\ encodes' = encodes + 1

\* C27: when no function has special instrumentation the resolve pass of
\* encode leaves the functions, with their instructions, their injected
\* bodies and their locals, and the type table as they were
C27_ResolveChangesNothing ==
    [][(Encodes /\ NoSpecialInstr) =>
        /\ out'.resolved = functions.functions
        /\ types' = types]_vars

\* an encode resolved a module that has a before body and no special
\* instrumentation
C27_Witness ==
    /\ AfterEncode
    /\ \A k \in 1..Len(out.unresolved) : ~out.unresolved[k].has_special_instr
    /\ \E k \in 1..Len(out.unresolved) : \E j \in 1..Len(out.unresolved[k].body) :
            out.unresolved[k].body[j].instr_flag.before # <<>>
    /\ out.resolved = out.unresolved


\* ---------------------------------------------------------------- final end specification
\* a visitor attaches bodies in the direct and in the special modes, then the
\* module is encoded
NextFinalEnd ==
    \/ InstrumentDirect
    \/ Instrument
    \/ Encode

\* the bodies of the parsed local function: a branch out of the function from
\* inside a block, and a body without blocks
FinalEndTemplates ==
    {Plain(<<Op("block", None), Op("br", 1), Op("end", None), Op("end", None)>>),
     Plain(<<Op("nop", None), Op("end", None)>>)}

\* a parsed module with one local function
InitFinalEnd ==
    /\ \E body \in FinalEndTemplates :
        functions = ParsedFunctions(0, <<body>>)
    /\ imports = ParsedImports(0, 0, 0)
    /\ num_local_functions = 1
    /\ start = None
    /\ globals = ParsedGlobals(0, 0, 0)
    /\ memories = ParsedMemories(0, 0, 0, 0)
    /\ num_local_globals = 0
    /\ num_local_memories = 0
    /\ InitTypes
    /\ NoSections
    /\ InitObs

SpecFinalEnd == InitFinalEnd /\ [][NextFinalEnd]_vars

\* ---------------------------------------------------------------- final end properties
\* what the last encode emitted for the last instruction of function k, which
\* it emitted: the before body of that instruction, then the final end
FinalEndKept(k) ==
    LET last == Last(out.resolved[k].body)
        emission == Last(out.instr_code[k])
    IN  /\ last.op.op = "end"
        /\ emission # <<>>
        /\ Last(emission).op = "end"
        /\ Len(emission) = Len(last.instr_flag.before) + 1

\* C28: every function body encode emits ends with the final end of the
\* function; an alternate or after body on the final end, attached by the
\* visitor or by the resolver, does not replace the end and is not emitted
\* behind it
C28_FinalEnd ==
    AfterEncode =>
        \A k \in 1..Len(out.resolved) :
            Emitted(out.resolved[k]) =>
                /\ FinalEndKept(k)
                /\ Last(Flatten(out.instr_code[k])).op = "end"

\* a function was emitted whose final end carries an alternate body the
\* visitor attached and an after body the resolver added
C28_Witness ==
    /\ AfterEncode
    /\ \E k \in 1..Len(out.resolved) :
        /\ Emitted(out.resolved[k])
        /\ Last(out.unresolved[k].body).instr_flag.alternate.some
        /\ Last(out.resolved[k].body).instr_flag.after
                # Last(out.unresolved[k].body).instr_flag.after
        /\ FinalEndKept(k)


\* ---------------------------------------------------------------- block_alt on an else
\* an if whose then-branch branches to the if and whose else-branch holds a
\* nested block, and an if with a call in its else-branch
ElseTemplates ==
    {Plain(<<Op("if", None), Op("br", 0), Op("else", None), Op("nop", None),
             Op("block", None), Op("nop", None), Op("end", None),
             Op("end", None), Op("end", None)>>),
     Plain(<<Op("if", None), Op("nop", None), Op("else", None), Op("call", 0),
             Op("end", None), Op("end", None)>>)}

\* a parsed module with one local function that holds an if with an else
InitElseAlt ==
    /\ \E body \in ElseTemplates :
        /\ imports = ParsedImports(0, 0, 0)
        /\ functions = ParsedFunctions(0, <<body>>)
    /\ num_local_functions = 1
    /\ start = None
    /\ globals = ParsedGlobals(0, 0, 0)
    /\ memories = ParsedMemories(0, 0, 0, 0)
    /\ num_local_globals = 0
    /\ num_local_memories = 0
    /\ InitTypes
    /\ NoSections
    /\ InitObs

SpecElseAlt == InitElseAlt /\ [][NextSemanticAfter]_vars

RECURSIVE WalkTo(_, _)
\* the walk of the resolver stopped before the iteration with index n
WalkTo(rs, n) ==
    IF rs.idx >= n \/ rs.idx >= Len(rs.copy) \/ rs.panic THEN rs
    ELSE WalkTo(ResolveStep(rs), n)

\* the walk over a local function without function-level instrumentation
WalkOf(f, n) == WalkTo(ResolverInit(f.body, f.args, f.num_locals, NoBody, NoBody), n)

\* the local functions with special instrumentation the first encode
\* resolved: the function before and after the resolver, its body after the
\* resolver, the code
ResolvedFunctions ==
    {[f |-> out.unresolved[k], g |-> out.resolved[k], R |-> out.resolved[k].body,
      code |-> out.instr_code[k]] :
        k \in {k \in 1..Len(out.unresolved) :
                /\ is_local(out.unresolved[k]) /\ ~out.unresolved[k].deleted
                /\ out.unresolved[k].has_special_instr
                /\ out.unresolved[k].entry = <<>> /\ out.unresolved[k].exit = <<>>}}

\* an else at position j with block_alt set, outside any block being removed
ElseAltAt(U, j) == IsElse(U[j].op) /\ U[j].instr_flag.block_alt.some /\ ~Enclosed(U, j)

\* the position of the if the else at j belongs to
IfOf(U, j) ==
    CHOOSE o \in 1..(j - 1) :
        /\ IsOpener(U[o].op) /\ BlockIdOf(U, o) = BlockIdOf(U, j)
        /\ \A x \in (o + 1)..(j - 1) : ~(IsOpener(U[x].op) /\ BlockIdOf(U, x) = BlockIdOf(U, j))

\* every body of the bucket is among the operators injected before (mode
\* Before) or after (mode After) the instruction
Received(ins, bucket) ==
    \A mode \in {"Before", "After"} :
        LET got == IF mode = "Before" THEN ins.instr_flag.before ELSE ins.instr_flag.after
        IN  /\ \A k \in 1..Len(bucket[mode].flagged) :
                    Contains(got, <<Op("local.get", bucket[mode].flagged[k].bool_flag),
                                    Op("if", None)>> \o bucket[mode].flagged[k].body)
            /\ \A k \in 1..Len(bucket[mode].not_flagged) :
                    Contains(got, bucket[mode].not_flagged[k])

\* the function with the block_alt of the instruction at position j taken away
WithoutAlt(f, j) == [f EXCEPT !.body[j].instr_flag.block_alt = NoBody]

\* C31: a block_alt on an else outside any deletion replaces the else by the
\* alt body and deletes every instruction of the else-branch; the matching end
\* of the if is kept and receives the bodies deferred to it, the if and its
\* then-branch are resolved as they are without the block_alt, and retain_end
\* is true after that end
C31_ElseAlt ==
    AfterFirstEncode =>
        \A b \in ResolvedFunctions :
            \A j \in 1..Len(b.f.body) :
                ElseAltAt(b.f.body, j) =>
                    LET U == b.f.body
                        e == RegionEnd(U, j)
                        pre == WalkOf(b.f, e - 1)
                        post == WalkOf(b.f, e)
                        plain == WalkOf(WithoutAlt(b.f, j), Len(U)).body
                    IN  /\ b.R[j].instr_flag.alternate =
                                SomeBody(U[j].instr_flag.alternate.body
                                            \o U[j].instr_flag.block_alt.body)
                        /\ b.code[j] = b.R[j].instr_flag.before
                                        \o U[j].instr_flag.block_alt.body
                                        \o b.R[j].instr_flag.after
                        /\ \A i \in (j + 1)..(e - 1) :
                                /\ b.R[i].instr_flag.alternate = SomeBody(<<>>)
                                /\ ~Contains(b.code[i], <<U[i].op>>)
                        /\ ~b.R[e].instr_flag.alternate.some
                        /\ Contains(b.code[e], <<U[e].op>>)
                        /\ Received(b.R[e], pre.resolve_on_end[BlockIdOf(U, j)])
                        /\ Received(b.R[e], pre.resolve_on_else_or_end)
                        /\ post.resolve_on_end[BlockIdOf(U, j)] = NoModeMap
                        /\ post.retain_end /\ post.delete_block = None
                        /\ \A i \in IfOf(U, j)..(j - 1) : b.R[i] = plain[i]

\* an else with a nested block in its branch was replaced while a body was
\* deferred to the end of its if
C31_Witness ==
    /\ AfterFirstEncode
    /\ \E b \in ResolvedFunctions :
        \E j \in 1..Len(b.f.body) :
            /\ ElseAltAt(b.f.body, j)
            /\ \E i \in (j + 1)..(RegionEnd(b.f.body, j) - 1) : IsOpener(b.f.body[i].op)
            /\ b.f.body[j].instr_flag.block_alt.body # <<>>
            /\ WalkOf(b.f, RegionEnd(b.f.body, j) - 1).resolve_on_end[BlockIdOf(b.f.body, j)]
                    # NoModeMap


\* ---------------------------------------------------------------- the wrapper of the function exit
\* a parsed module with one local function that holds exit points, no import
InitWrapper ==
    /\ InitFuncExit
    /\ imports.imports = <<>>

\* a visitor instruments the function or its instructions, encode
NextWrapper ==
    \/ InstrumentFunction
    \/ Instrument
    \/ Encode

SpecWrapper == InitWrapper /\ [][NextWrapper]_vars

\* the local functions with an exit body the first encode walked: the function
\* before, the function after the resolver
WalkedWithExit ==
    {[f |-> out.unresolved[k], g |-> out.resolved[k]] :
        k \in {k \in 1..Len(out.unresolved) :
                /\ is_local(out.unresolved[k]) /\ ~out.unresolved[k].deleted
                /\ out.unresolved[k].exit # <<>>
                /\ k - 1 >= out.orig.functions}}

\* what the resolver injected before instruction 0 of f, behind the operators
\* the visitor had put there
InjectedAtEntry(f, g) ==
    SubSeq(g.body[1].instr_flag.before, Len(f.body[1].instr_flag.before) + 1,
           Len(g.body[1].instr_flag.before))

\* the opener of a wrapper: a block with a function type
IsWrapperOpener(o) == o.op = "block" /\ o.arg # None

\* the number of wrapper openers among the bodies the instructions of R carry
WrapperOpeners(R) ==
    SeqSum([j \in 1..Len(R) |->
                Cardinality({a \in 1..Len(R[j].instr_flag.before) :
                                IsWrapperOpener(R[j].instr_flag.before[a])})
                + Cardinality({a \in 1..Len(R[j].instr_flag.after) :
                                IsWrapperOpener(R[j].instr_flag.after[a])})
                + Cardinality({a \in 1..Len(R[j].instr_flag.alternate.body) :
                                IsWrapperOpener(R[j].instr_flag.alternate.body[a])})])

\* the entry body and the opener of the wrapper are injected once each
EntryOnce(f, g) ==
    /\ g.entry = <<>>
    /\ WrapperOpeners(g.body) = 1
    /\ f.entry # <<>> => Copies(g.body, f.entry) = 1

FlaggedBranches(U) == {i \in 1..Len(U) : FlaggedBranch(U, i)}

TargetsFunction(U, i) ==
    \E d \in 1..Len(BranchDepths(U[i].op)) : BranchDepths(U[i].op)[d] = Depth(U, i)

\* C34: the semantic_after body of a branch whose target is the function-level
\* block is among the operators encode emits for the function
C34_OutermostTargetEmitted ==
    AfterFirstEncode =>
        \A b \in ResolvedBodies :
            \A i \in 1..Len(b.U) :
                (FlaggedBranch(b.U, i) /\ TargetsFunction(b.U, i)) =>
                    Contains(Flatten(b.code), b.U[i].instr_flag.semantic_after)


\* ---------------------------------------------------------------- grouping of the type section
\* a binary with a type section of function, struct and continuation types
InitGrouping ==
    /\ InitRoundTrip
    /\ \A k \in 1..Len(wasm) : \A t \in 1..Len(wasm[k].types) : wasm[k].types[t] # "ArrayType"

\* parse, then encode
NextGrouping ==
    \/ ParseBinary
    \/ EncodeParsed

SpecGrouping == InitGrouping /\ [][NextGrouping]_vars

\* the index in the type table of the first type of the k-th emitted entry
FirstOf(section, k) == SeqSum([j \in 1..(k - 1) |-> Len(section[j].types)])

\* the recgroup id of the type with index idx of the parsed module
GroupOf(idx) == recgroup_get(parsed.recgroup_map, idx)

\* C35: the concatenation of the entries of the emitted type section is the
\* type table in order; an emitted rec group is a maximal run of consecutive
\* types with one recgroup id, so that every such run is one rec group; and a
\* type without a recgroup id is emitted as an entry of its own
C35_Grouping ==
    last_op = "encode" =>
        /\ Flatten([k \in 1..Len(encoded) |-> encoded[k].types]) = parsed.types
        /\ \A k \in 1..Len(encoded) :
            LET first == FirstOf(encoded, k)
                last == first + Len(encoded[k].types) - 1
            IN  /\ encoded[k].types # <<>>
                /\ ~encoded[k].explicit =>
                        /\ Len(encoded[k].types) = 1
                        /\ GroupOf(first) = None
                /\ encoded[k].explicit =>
                        /\ GroupOf(first) # None
                        /\ \A idx \in first..last : GroupOf(idx) = GroupOf(first)
                        /\ first > 0 => GroupOf(first - 1) # GroupOf(first)
                        /\ last + 1 < Len(parsed.types) => GroupOf(last + 1) # GroupOf(first)

\* a type section of two rec groups next to each other, one of them with two
\* types, was emitted
C35_Witness ==
    /\ last_op = "encode"
    /\ Len(encoded) = 2
    /\ encoded[1].explicit /\ encoded[2].explicit
    /\ Len(encoded[1].types) = 2
    /\ GroupOf(0) # GroupOf(2)


\* ---------------------------------------------------------------- function names of the name section
MaxNameItems == 2      \* imports, code entries of a named binary

\* Import with its custom name, Body with its name: None for no name
NamedImport(ty) == [ty |-> ty, custom_name |-> None]
NamedBody == [name |-> None]

\* the locals of parse_internal the function names depend on, as they are
\* before the loop
NameLocals == [imports |-> <<>>, num_funcs |-> 0, code_sections |-> <<>>, panic |-> FALSE]

\* one record of the function sub-section of the name section
Naming(index, name) == [index |-> index, name |-> name]

\* the position in the import table of the function import with the given
\* count of function imports before it, as the loop over imports.iter_mut()
\* finds it; 0 when the loop ends without a match
NthFunctionImport(imps, abs_idx) ==
    LET at == {k \in 1..Len(imps) :
                /\ imps[k].ty = "Func"
                /\ Cardinality({j \in 1..(k - 1) : imps[j].ty = "Func"}) = abs_idx}
    IN  IF at = {} THEN 0 ELSE CHOOSE k \in at : TRUE

\* the body of the loop over the records of Name::Function
BindFunctionName(locals, naming) ==
    LET abs_idx == naming.index
    IN  IF abs_idx < locals.num_funcs
        THEN LET k == NthFunctionImport(locals.imports, abs_idx)
             IN  IF k = 0 THEN locals
                 ELSE [locals EXCEPT !.imports[k].custom_name = naming.name]
        ELSE LET rel_idx == abs_idx - locals.num_funcs
             IN  IF rel_idx >= Len(locals.code_sections)
                 THEN [locals EXCEPT !.panic = TRUE]
                 ELSE [locals EXCEPT !.code_sections[rel_idx + 1].name = naming.name]

RECURSIVE BindFunctionNames(_, _)
\* the loop over the records of Name::Function
BindFunctionNames(locals, names) ==
    IF names = <<>> \/ locals.panic THEN locals
    ELSE BindFunctionNames(BindFunctionName(locals, Head(names)), Tail(names))

\* the loop body of parse_internal for an import section, a code section
\* entry, and a name section that holds a function sub-section
ParseNamedPayload(locals, payload) ==
    CASE payload.kind = "ImportSection" ->
            [locals EXCEPT !.imports = [k \in 1..Len(payload.value) |->
                                            NamedImport(payload.value[k])],
                           !.num_funcs = Len(ImportsOf(payload.value, "Func"))]
      [] payload.kind = "CodeSectionEntry" ->
            [locals EXCEPT !.code_sections = Append(@, NamedBody)]
      [] payload.kind = "NameSection" -> BindFunctionNames(locals, payload.value)

RECURSIVE ParseNamedLoop(_, _)
\* the loop of parse_internal over the payloads: a panic ends it
ParseNamedLoop(stream, locals) ==
    IF stream = <<>> \/ locals.panic THEN locals
    ELSE ParseNamedLoop(Tail(stream), ParseNamedPayload(locals, Head(stream)))

\* Module::parse on the payloads of a binary with names
parse_names(stream) == ParseNamedLoop(stream, NameLocals)

\* the places a name section takes among the import section and the code
\* section: behind both, between them, in front of both
NameSectionOrders ==
    {<<"ImportSection", "CodeSection", "NameSection">>,
     <<"ImportSection", "NameSection", "CodeSection">>,
     <<"NameSection", "ImportSection", "CodeSection">>}

\* the payloads of a binary with the given imports, number of bodies and
\* function names, its sections in the given order
NamedStream(kinds, n_code, names, order) ==
    Flatten([k \in 1..Len(order) |->
                CASE order[k] = "ImportSection" -> <<Payload("ImportSection", kinds)>>
                  [] order[k] = "CodeSection" ->
                        [j \in 1..n_code |-> Payload("CodeSectionEntry", None)]
                  [] order[k] = "NameSection" -> <<Payload("NameSection", names)>>])

\* a binary with imports, bodies and a name section that is about to be parsed
InitNames ==
    /\ \E kinds \in SeqsUpTo({"Func", "Global"}, MaxNameItems),
          n_code \in 0..MaxNameItems,
          index \in 0..(2 * MaxNameItems),
          order \in NameSectionOrders :
            arg = [kinds |-> kinds, n_code |-> n_code, names |-> <<Naming(index, "f")>>,
                   order |-> order]
    /\ result = <<>>
    /\ wasm = <<>> /\ parsed = NoTypes /\ encoded = <<>> /\ reparsed = NoTypes
    /\ NoSections
    /\ imports = ParsedImports(0, 0, 0)
    /\ functions = ParsedFunctions(0, <<>>)
    /\ globals = ParsedGlobals(0, 0, 0)
    /\ memories = ParsedMemories(0, 0, 0, 0)
    /\ types = <<>>
    /\ start = None
    /\ num_local_functions = 0 /\ num_local_globals = 0 /\ num_local_memories = 0
    /\ out = NoOut /\ prev_out = NoOut
    /\ encodes = 0 /\ edits = 0 /\ last_op = "input" /\ status = "ok" /\ ret = <<>>

\* Module::parse on the binary
ParseNamed ==
    /\ last_op = "input"
    /\ result' = <<parse_names(NamedStream(arg.kinds, arg.n_code, arg.names, arg.order))>>
    /\ last_op' = "parse"
    /\ UNCHANGED <<modvars, secvars, out, prev_out, encodes, edits, status, ret,
                   wasm, parsed, encoded, reparsed, arg>>

SpecNames == InitNames /\ [][ParseNamed]_vars

\* the function-name record is bound in the parsed locals: to the import with
\* that many function imports before it when its index is below the number of
\* function imports of the binary, else to the body with the index less that
\* number
BoundTo(locals, naming) ==
    LET n_imp == Len(ImportsOf(arg.kinds, "Func"))
    IN  IF naming.index < n_imp
        THEN locals.imports[At(ImportsOf(arg.kinds, "Func"), naming.index) + 1].custom_name
                = naming.name
        ELSE /\ naming.index - n_imp < Len(locals.code_sections)
             /\ locals.code_sections[naming.index - n_imp + 1].name = naming.name

\* C36: parse ends with a module or an error, and every function-name record
\* is bound to the import or the body its index names, at every index and
\* wherever the name section is
C36_FunctionNames ==
    last_op = "parse" =>
        /\ ~result[1].panic
        /\ \A k \in 1..Len(arg.names) : BoundTo(result[1], arg.names[k])

\* C36 for the binaries whose name section is behind the import and the code
\* section and whose record names a function of the binary
C36_FunctionNamesInRange ==
    (/\ last_op = "parse"
     /\ arg.order = <<"ImportSection", "CodeSection", "NameSection">>
     /\ \A k \in 1..Len(arg.names) :
            arg.names[k].index < Len(ImportsOf(arg.kinds, "Func")) + arg.n_code) =>
        /\ ~result[1].panic
        /\ \A k \in 1..Len(arg.names) : BoundTo(result[1], arg.names[k])


\* ---------------------------------------------------------------- semantic_after on other operators
\* position i of U holds an operator that is neither a branch nor an opener nor
\* an else, with a semantic_after body, outside any deleted block
PlainWithSemanticAfter(U, i) ==
    /\ U[i].op.op \notin Branches
    /\ ~IsOpener(U[i].op) /\ ~IsElse(U[i].op)
    /\ U[i].instr_flag.semantic_after # <<>>
    /\ Live(U, i)

\* C37: the semantic_after body of an operator that is neither a branch nor an
\* opener nor an else, outside any deleted block, is emitted right behind that
\* operator (behind the after body the visitor attached, if any)
C37_SemanticAfterPlain ==
    AfterFirstEncode =>
        \A b \in ResolvedBodies :
            \A i \in 1..Len(b.U) :
                PlainWithSemanticAfter(b.U, i) =>
                    Contains(b.code[i],
                             <<b.U[i].op>> \o b.U[i].instr_flag.after
                                \o b.U[i].instr_flag.semantic_after)

\* C37, the weaker reading: the body is emitted somewhere in the function
C37_SemanticAfterKept ==
    AfterFirstEncode =>
        \A b \in ResolvedBodies :
            \A i \in 1..Len(b.U) :
                PlainWithSemanticAfter(b.U, i) =>
                    Contains(Flatten(b.code), b.U[i].instr_flag.semantic_after)


\* ---------------------------------------------------------------- the deferred bodies
\* the number of bodies a bucket holds
BucketSize(bucket) ==
    Len(bucket.Before.flagged) + Len(bucket.Before.not_flagged)
        + Len(bucket.After.flagged) + Len(bucket.After.not_flagged)

\* both tables of the walk are empty
TablesEmpty(rs) ==
    /\ rs.resolve_on_else_or_end = NoModeMap
    /\ \A id \in DOMAIN rs.resolve_on_end : rs.resolve_on_end[id] = NoModeMap

RECURSIVE WalkTrace(_)
\* the states of the walk: the state before the first iteration, then the
\* state after each iteration
WalkTrace(acc) ==
    IF Last(acc).idx >= Len(Last(acc).copy) \/ Last(acc).panic THEN acc
    ELSE WalkTrace(Append(acc, ResolveStep(Last(acc))))

\* the states of the walk over a local function without function-level
\* instrumentation: W[k + 1] is the state after k iterations
TraceOf(f) == WalkTrace(<<ResolverInit(f.body, f.args, f.num_locals, NoBody, NoBody)>>)

\* the bodies the iteration at position k deferred to the block with the given
\* id stay in their bucket up to the end of that block, where the bucket is
\* emptied and its bodies are injected
DrainedAtOwnEnd(b, W, k, id) ==
    LET e == EndOf(b.f.body, k, id)
    IN  /\ \A m \in k..(e - 1) :
                BucketSize(W[m + 1].resolve_on_end[id]) >= BucketSize(W[k + 1].resolve_on_end[id])
        /\ W[e + 1].resolve_on_end[id] = NoModeMap
        /\ Received(b.R[e], W[e].resolve_on_end[id])

\* the bodies the iteration at position k deferred to the next else or end are
\* injected at a later else or end, where the table is emptied
DrainedLater(b, W, k) ==
    \E e \in (k + 1)..Len(b.f.body) :
        /\ IsElse(b.f.body[e].op) \/ IsEnd(b.f.body[e].op)
        /\ \A m \in k..(e - 1) :
                BucketSize(W[m + 1].resolve_on_else_or_end)
                    >= BucketSize(W[k + 1].resolve_on_else_or_end)
        /\ W[e + 1].resolve_on_else_or_end = NoModeMap
        /\ Received(b.R[e], W[e].resolve_on_else_or_end)

\* the number of copies of the deferred bodies of position i the resolved body
\* holds is the number of times the resolver defers or injects them
InjectedOnce(U, R, i) ==
    LET flag == U[i].instr_flag
        o == U[i].op
    IN  /\ (flag.block_exit # <<>> /\ (IsOpener(o) \/ IsElse(o))) =>
                Copies(R, flag.block_exit) = 1
        /\ (flag.semantic_after # <<>> /\ (IsOpener(o) \/ IsElse(o))) =>
                Copies(R, flag.semantic_after) = 1
        /\ (flag.semantic_after # <<>> /\ o.op \in Branches) =>
                Copies(R, flag.semantic_after) =
                    Len(BranchDepths(o)) + (IF o.op \in FallthroughBranches THEN 1 ELSE 0)

\* the walk W over the function of b ends with both tables empty, empties a
\* bucket of resolve_on_end at the end of the block its bodies were deferred
\* for, and injects no deferred body twice
DeferredOnce(b, W) ==
    LET U == b.f.body
    IN  /\ Len(W) = Len(U) + 1
        /\ ~Last(W).panic
        /\ TablesEmpty(Last(W))
        /\ \A k \in 1..Len(U) :
            /\ \A id \in DOMAIN W[1].resolve_on_end :
                    BucketSize(W[k + 1].resolve_on_end[id]) > BucketSize(W[k].resolve_on_end[id])
                    => DrainedAtOwnEnd(b, W, k, id)
            /\ BucketSize(W[k + 1].resolve_on_else_or_end)
                    > BucketSize(W[k].resolve_on_else_or_end)
               => DrainedLater(b, W, k)
            /\ Live(U, k) => InjectedOnce(U, b.R, k)

Deferred(W) ==
    \E k \in 1..Len(W) :
        \/ \E id \in DOMAIN W[k].resolve_on_end : W[k].resolve_on_end[id] # NoModeMap
        \/ W[k].resolve_on_else_or_end # NoModeMap

DepthBodies ==
    {<<Op("block", None), Op("br", 1), Op("end", None), Op("end", None)>>,
     <<Op("br", 1), Op("end", None)>>,
     <<Op("block", None), Op("br_if", 2), Op("end", None), Op("end", None)>>,
     <<Op("end", None), Op("br", 0), Op("end", None)>>}

\* a parsed module with one local function whose body parse accepted
InitDepths ==
    /\ \E ops \in DepthBodies :
        /\ ParseCodeEntry(ParseLocals, ops, FALSE).ret = <<>>
        /\ imports = ParsedImports(0, 0, 0)
        /\ functions = ParsedFunctions(0, <<Plain(ops)>>)
    /\ num_local_functions = 1
    /\ start = None
    /\ globals = ParsedGlobals(0, 0, 0)
    /\ memories = ParsedMemories(0, 0, 0, 0)
    /\ num_local_globals = 0
    /\ num_local_memories = 0
    /\ InitTypes
    /\ NoSections
    /\ InitObs

SpecDepths == InitDepths /\ [][NextSemanticAfter]_vars

\* the walk W plans the semantic_after body of the branch at position k: the
\* walk reached it and no block is being deleted
PlansBranch(f, W, k) ==
    /\ k <= Len(W)
    /\ ~W[k].panic
    /\ f.body[k].op.op \in Branches
    /\ f.body[k].instr_flag.semantic_after # <<>>
    /\ W[k].delete_block = None

\* the block stack is not empty when its top is read for the branch, and for
\* every relative depth the top less the depth is not below zero and is an id
\* on the block stack
TargetOnStack(f, W, k) ==
    /\ W[k].block_stack # <<>>
    /\ \A d \in 1..Len(BranchDepths(f.body[k].op)) :
        LET target == Last(W[k].block_stack) - BranchDepths(f.body[k].op)[d]
        IN  /\ target >= 0
            /\ \E x \in 1..Len(W[k].block_stack) : W[k].block_stack[x] = target

\* the walk of the resolver over f finds the target of every branch it plans
\* on the block stack
TargetsOnStack(f, W) ==
    \A k \in 1..Len(f.body) : PlansBranch(f, W, k) => TargetOnStack(f, W, k)

\* C39: for every branch with a semantic_after body that the resolver plans,
\* in a function body parse accepted, the block stack is not empty when its
\* top is read, and the top less the relative depth does not underflow and is
\* the id of a block on the stack
C39_TargetOnStack ==
    \A n \in 1..Len(functions.functions) :
        LET f == functions.functions[n]
        IN  (is_local(f) /\ ~f.deleted /\ f.has_special_instr
                /\ f.entry = <<>> /\ f.exit = <<>>) =>
                TargetsOnStack(f, TraceOf(f))

\* C39 for the bodies in which no relative depth exceeds the depth of its
\* branch and no end closes the function-level block before the last one
C39_TargetOnStackValid ==
    \A n \in 1..Len(functions.functions) :
        LET f == functions.functions[n]
        IN  (/\ is_local(f) /\ ~f.deleted /\ f.has_special_instr
             /\ f.entry = <<>> /\ f.exit = <<>>
             /\ \A k \in 1..Len(f.body) :
                    /\ k < Len(f.body) => Depth(f.body, k) >= 0 /\ ~(IsEnd(f.body[k].op) /\ Depth(f.body, k) = 0)
                    /\ \A d \in 1..Len(BranchDepths(f.body[k].op)) :
                            f.body[k].op.op \in Branches =>
                                BranchDepths(f.body[k].op)[d] <= Depth(f.body, k)) =>
                TargetsOnStack(f, TraceOf(f))


\* ---------------------------------------------------------------- the local counters
\* C40: adding an imported global, function or memory leaves the counter of
\* the local globals, functions or memories as it is, and adding a local
\* global, function or memory adds one to it
C40_LocalCounters ==
    [][/\ AddImportedGlobal => num_local_globals' = num_local_globals
       /\ AddImportFunc => num_local_functions' = num_local_functions
       /\ AddImportMemory => num_local_memories' = num_local_memories
       /\ AddGlobal => num_local_globals' = num_local_globals + 1
       /\ AddLocalFunc => num_local_functions' = num_local_functions + 1
       /\ AddLocalMemory => num_local_memories' = num_local_memories + 1]_vars

\* C40 without the imported globals
C40_LocalCountersButImportedGlobal ==
    [][/\ AddImportFunc => num_local_functions' = num_local_functions
       /\ AddImportMemory => num_local_memories' = num_local_memories
       /\ AddGlobal => num_local_globals' = num_local_globals + 1
       /\ AddLocalFunc => num_local_functions' = num_local_functions + 1
       /\ AddLocalMemory => num_local_memories' = num_local_memories + 1]_vars

====
